---- MODULE Spec2Model ----
(***************************************************************************)
(* Model of the xguard ML service (rpc-cloaker/ml-service): the model      *)
(* registry (ModelManager), the training orchestrator (TrainingService)    *)
(* and the scoring path (PredictionService), as they run on one asyncio    *)
(* event loop.  An action of the service specification is the code that    *)
(* runs between two real suspension points of a coroutine: the event loop  *)
(* switches tasks only where a coroutine waits for a collaborator (the     *)
(* database, redis, the blacklist backend).                                *)
(*                                                                         *)
(* Numbers: a metric is an integer number of 1/10000 (the trainer rounds   *)
(* every metric to 4 decimals), a confidence an integer number of 1/100.   *)
(***************************************************************************)
EXTENDS Integers, Sequences, FiniteSets, TLC

VARIABLES
    phase,            \* "constructed" (after ModelManager.__init__) | "serving" (lifespan done)
    model_files,      \* the store: version name -> contents of model_v<name>.pkl
    metadata_files,   \* the store: version name -> contents of metadata_v<name>.json
    current_model,    \* ModelManager.current_model
    current_version,  \* ModelManager.current_version
    feature_names,    \* ModelManager.feature_names
    model_metadata,   \* ModelManager.model_metadata
    is_training,      \* TrainingService.is_training
    train_pc,         \* run_training task -> where the coroutine is suspended
    last_exit,        \* how the run_training invocation that returned last ended
    saves,            \* save_model calls made so far (bounded by MaxSaves)
    faults,           \* I/O failures injected into save_model / cleanup_old_versions so far
    pred_pc,          \* predict task -> where the coroutine is suspended
    pred_local,       \* predict task -> the coroutine's locals and its returned Decision
    effects,          \* request specification: what the observed predict request met and did
    last_call,        \* registry specification: the last registry call and its outcome
    save_returns,     \* registry specification: ids returned by the current run of successive saves
    dep_current,      \* promotion specification: metrics of the active version
    dep_new,          \* promotion specification: metrics of the candidate
    dep_result,       \* promotion specification: what _should_deploy_model returned
    signal,           \* classification specification: the visitor data handed to extract_features
    extracted,        \* classification specification: what extract_features(signal) did
    verdict,          \* classification specification: what the rule-based classifier answered
    labels_list,      \* balancing specification: the labels given to prepare_training_data
    prepared,         \* balancing specification: what prepare_training_data returned
    targeted,         \* targeting specification: the visitor data and campaign targeting given
    geo_features,     \* targeting specification: what _extract_geo_features returned
    detect_input,     \* headless specification: the visitor_info handed to detect
    detection,        \* headless specification: the HeadlessDetectionResult of detect
    declined          \* history: the stored version ids whose promotion decision was negative

vars == <<phase, model_files, metadata_files, current_model, current_version,
          feature_names, model_metadata, is_training, train_pc, last_exit,
          saves, faults, pred_pc, pred_local, effects, last_call, save_returns,
          dep_current, dep_new, dep_result, signal, extracted, verdict,
          labels_list, prepared, targeted, geo_features, detect_input, detection,
          declined>>

store_vars == <<model_files, metadata_files>>
manager_vars == <<current_model, current_version, feature_names, model_metadata>>
training_vars == <<is_training, train_pc, last_exit>>
predict_vars == <<pred_pc, pred_local, effects>>
registry_history_vars == <<last_call, save_returns>>
deploy_vars == <<dep_current, dep_new, dep_result>>
extract_vars == <<signal, extracted, verdict>>
function_vars == <<labels_list, prepared, targeted, geo_features, detect_input, detection>>

----------------------------------------------------------------------------
(* Bounds of the model. *)

\* save_model calls per execution (version ids are otherwise unbounded).
MaxSaves == 2
\* I/O failures injected into save_model and cleanup_old_versions per execution.
MaxFaults == 1
\* Concurrent run_training invocations (the scheduler job and manual triggers).
NumTrainers == 2
\* The store found at start-up holds either nothing or versions 1..StoredAtStart.
StoredAtStart == 5
\* Concurrent predict requests in flight.
NumPredictors == 2
\* keep_versions values tried by direct calls of cleanup_old_versions: 0..MaxKeep.
MaxKeep == 2

(* Program constants. *)

\* run_training prunes with cleanup_old_versions(keep_versions=5).
KeepVersions == 5

----------------------------------------------------------------------------
(* Values. *)

\* Python None, for the manager's fields and for a call that returned no version.
None == "<None>"
\* The version and the classifier installed by _create_default_model.
RuleBasedVersion == "rule_based_v1"
RuleBasedModel == "RuleBasedBotDetector"
\* An empty dict.
EmptyDict == [k \in {} |-> 0]

\* str(n) for a natural number: decimal digits, most significant first.
Digit(d) ==
    CASE d = 0 -> "0" [] d = 1 -> "1" [] d = 2 -> "2" [] d = 3 -> "3" [] d = 4 -> "4"
      [] d = 5 -> "5" [] d = 6 -> "6" [] d = 7 -> "7" [] d = 8 -> "8" [] d = 9 -> "9"

RECURSIVE Str(_)
Str(n) == IF n < 10 THEN Digit(n) ELSE Str(n \div 10) \o Digit(n % 10)

\* The version numbers a stored file name can carry within the bounds.
VersionNumbers == 0 .. (StoredAtStart + MaxSaves + 5)
NameOf == [n \in VersionNumbers |-> Str(n)]

\* int(stem.split('_v')[1]) of a file save_model named: the number whose str is s.
IntOfName == [s \in {NameOf[n] : n \in VersionNumbers} |->
                 CHOOSE n \in VersionNumbers : NameOf[n] = s]
IntOf(s) == IntOfName[s]

Max(S) == CHOOSE x \in S : \A y \in S : y <= x

\* f without the keys in S.
Drop(f, S) == [k \in DOMAIN f \ S |-> f[k]]
\* f with key k set to v (created or overwritten).
Put(f, k, v) == [x \in DOMAIN f \cup {k} |-> IF x = k THEN v ELSE f[x]]

\* The feature order of FeatureExtractor (its group order; the names stand for the groups).
ExtractorFeatureNames == <<"ua", "headers", "geo", "device">>
\* The feature order of the rule-based classifier (a different, shorter list).
RuleBasedFeatureNames == <<"ua", "headers", "geo">>
\* Feature orders given to direct save_model calls.
FeatureOrders == {ExtractorFeatureNames, <<"headers", "ua", "geo", "device">>}

\* A metrics dict as ModelTrainer._evaluate_model builds it (precision stands for the
\* metrics other than f1_score and roc_auc).
Metrics(f1, auc, prec) == [f1_score |-> f1, roc_auc |-> auc, precision |-> prec]
BaseMetrics == Metrics(5000, 5000, 5000)
\* What a training run of the service may measure: the metrics of the versions found
\* at start-up, or an F1 4% above them with a lower precision.
TrainedMetrics == {BaseMetrics, Metrics(5200, 5000, 4000)}

\* Contents of a model file: a complete pickle, or what a failed pickle.dump left.
ModelFile(model, fo) == [ok |-> TRUE, model |-> model, feature_names |-> fo]
PartialModelFile == [ok |-> FALSE, model |-> None, feature_names |-> <<>>]
\* Contents of a metadata file: complete JSON, or what a failed json.dump left.
MetadataFile(version, fo, metrics) ==
    [ok |-> TRUE,
     json |-> [version |-> version, metrics |-> metrics, feature_count |-> Len(fo)]]
PartialMetadataFile == [ok |-> FALSE, json |-> EmptyDict]

\* The classifier object found pickled in version v of the store at start-up.
StoredModel(v) == "XGBClassifier@v" \o v
\* The classifier object fitted by the n-th save-reaching training run of this execution.
TrainedModel(n) == "XGBClassifier#" \o Str(n)

\* The manager's fields as one record.
Manager ==
    [current_model |-> current_model, current_version |-> current_version,
     feature_names |-> feature_names, model_metadata |-> model_metadata]

----------------------------------------------------------------------------
(* ModelManager: the registry.  Each operation is an operator from the      *)
(* state it reads to the state it leaves and the exception it raised.       *)

\* load_model with the fields assigned before the artifact is checked.
load_model_assign_first(version, mgr, mfiles, metafiles) ==
    IF version \notin DOMAIN mfiles
    THEN [raised |-> "FileNotFoundError",
          mgr |-> [mgr EXCEPT !.current_version = version, !.current_model = None]]
    ELSE IF ~mfiles[version].ok
    THEN [raised |-> "UnpicklingError", mgr |-> mgr]
    ELSE [raised |-> "none",
          mgr |-> [mgr EXCEPT !.current_model = mfiles[version].model,
                              !.feature_names = mfiles[version].feature_names,
                              !.current_version = version,
                              !.model_metadata =
                                  IF version \in DOMAIN metafiles /\ metafiles[version].ok
                                  THEN metafiles[version].json ELSE @]]

\* load_model that keeps the metadata it already holds.
load_model_keep_metadata(version, mgr, mfiles, metafiles) ==
    IF version \notin DOMAIN mfiles
    THEN [raised |-> "FileNotFoundError", mgr |-> mgr]
    ELSE IF ~mfiles[version].ok
    THEN [raised |-> "UnpicklingError", mgr |-> mgr]
    ELSE [raised |-> "none",
          mgr |-> [mgr EXCEPT !.current_model = mfiles[version].model,
                              !.feature_names = mfiles[version].feature_names,
                              !.current_version = version]]

\* load_model(version): the manager's fields after the call and what it raised.
\* The artifact is checked and unpickled before any field is assigned; the
\* metadata is read after current_model, feature_names and current_version
\* were assigned, and only when the metadata file exists.
load_model(version, mgr, mfiles, metafiles) ==
    IF version \notin DOMAIN mfiles
    THEN [raised |-> "FileNotFoundError", mgr |-> mgr]
    ELSE IF ~mfiles[version].ok
    THEN [raised |-> "UnpicklingError", mgr |-> mgr]
    ELSE LET assigned == [mgr EXCEPT !.current_model = mfiles[version].model,
                                     !.feature_names = mfiles[version].feature_names,
                                     !.current_version = version]
         IN  IF version \notin DOMAIN metafiles
             THEN [raised |-> "none", mgr |-> assigned]
             ELSE IF ~metafiles[version].ok
             THEN [raised |-> "JSONDecodeError", mgr |-> assigned]
             ELSE [raised |-> "none",
                   mgr |-> [assigned EXCEPT !.model_metadata = metafiles[version].json]]

\* The version numbers of the stored model files (glob model_v*.pkl).
ExistingVersions(mfiles) == {IntOf(v) : v \in DOMAIN mfiles}

\* The ways a save_model call can end: normally, or with an I/O failure while the
\* pickle is written (a partial model file is left), when the metadata file is
\* opened (no metadata file is left), while the JSON is written (a partial
\* metadata file is left), or in the MLflow logging after both files are written.
SaveOutcomes == {"ok", "pickle_fail", "metadata_open_fail", "metadata_write_fail", "mlflow_fail"}
SaveFaults == SaveOutcomes \ {"ok"}

\* The new version id numbered by the count of stored files.
new_version_by_count(mfiles) == Str(Cardinality(DOMAIN mfiles) + 1)

\* The version id save_model assigns: str(max(existing_versions, default=0) + 1).
new_version_id(mfiles) == Str(Max(ExistingVersions(mfiles) \cup {0}) + 1)

\* save_model(model, feature_names, metrics): the store after the call, the
\* version id it returned (None when it raised) and what it raised.
save_model(model, fo, metrics, outcome, mfiles, metafiles) ==
    LET new_version == new_version_id(mfiles)
        written_model == Put(mfiles, new_version, ModelFile(model, fo))
        written_meta == Put(metafiles, new_version, MetadataFile(new_version, fo, metrics))
    IN  CASE outcome = "pickle_fail" ->
               [raised |-> "OSError", version |-> None,
                mfiles |-> Put(mfiles, new_version, PartialModelFile),
                metafiles |-> metafiles]
          [] outcome = "metadata_open_fail" ->
               [raised |-> "OSError", version |-> None,
                mfiles |-> written_model, metafiles |-> metafiles]
          [] outcome = "metadata_write_fail" ->
               [raised |-> "OSError", version |-> None,
                mfiles |-> written_model,
                metafiles |-> Put(metafiles, new_version, PartialMetadataFile)]
          [] outcome = "mlflow_fail" ->
               [raised |-> "MlflowException", version |-> None,
                mfiles |-> written_model, metafiles |-> written_meta]
          [] OTHER ->
               [raised |-> "none", version |-> new_version,
                mfiles |-> written_model, metafiles |-> written_meta]

\* get_metrics(): model_metadata.get('metrics', {}).
get_metrics(mgr) ==
    IF "metrics" \in DOMAIN mgr.model_metadata THEN mgr.model_metadata.metrics ELSE EmptyDict

\* versions.sort(key=lambda x: int(x['version']), reverse=True)
RECURSIVE SortByVersionDescending(_)
SortByVersionDescending(entries) ==
    IF entries = {} THEN <<>>
    ELSE LET top == CHOOSE x \in entries :
                        \A y \in entries : IntOf(y.version) <= IntOf(x.version)
         IN  <<top>> \o SortByVersionDescending(entries \ {top})

\* The listing without its first entry (not what the code does).
list_versions_without_newest(metafiles) ==
    LET all == SortByVersionDescending({metafiles[v].json :
                                           v \in {x \in DOMAIN metafiles : metafiles[x].ok}})
    IN  IF all = <<>> THEN <<>> ELSE Tail(all)

\* list_versions(): the metadata of every metadata_v*.json that can be read (a file
\* that cannot is logged and skipped), highest version number first.
list_versions(metafiles) ==
    SortByVersionDescending({metafiles[v].json : v \in {x \in DOMAIN metafiles : metafiles[x].ok}})

\* The stored versions sorted by version number, highest first.
RECURSIVE SortedDescending(_)
SortedDescending(names) ==
    IF names = {} THEN <<>>
    ELSE LET top == NameOf[Max({IntOf(v) : v \in names})]
         IN  <<top>> \o SortedDescending(names \ {top})

\* The slice taken one element late.
SliceAfter(s, n) == IF n + 1 >= Len(s) THEN <<>> ELSE SubSeq(s, n + 2, Len(s))

\* s[n:] of a Python list.
SliceFrom(s, n) == IF n >= Len(s) THEN <<>> ELSE SubSeq(s, n + 1, Len(s))

\* The ways a cleanup_old_versions call can end: "none" (every unlink succeeds), or
\* an unlink raises at the i-th version it deletes: "model" before that version's
\* model file is removed, "metadata" after it, before its metadata file is removed.
NoFault == [at |-> 0, file |-> "none"]
CleanupFaults(n) == {[at |-> i, file |-> f] : i \in 1..n, f \in {"model", "metadata"}}

\* The deletion list without the test for the current version.
CleanupTargetsAll(keep, current, mfiles) ==
    SliceFrom(SortedDescending(DOMAIN mfiles), keep)

\* The versions cleanup_old_versions(keep) deletes when nothing fails, in order:
\* those after the first `keep` of the descending list, except current_version.
CleanupTargets(keep, current, mfiles) ==
    SelectSeq(SliceFrom(SortedDescending(DOMAIN mfiles), keep), LAMBDA v : v # current)

\* cleanup_old_versions(keep_versions): the store after the call and what it raised.
cleanup_old_versions(keep, current, fault, mfiles, metafiles) ==
    LET targets == CleanupTargets(keep, current, mfiles)
        done == IF fault.at = 0 THEN Len(targets) ELSE fault.at - 1
        whole == {targets[i] : i \in 1..done}
        half == IF fault.at # 0 /\ fault.file = "metadata" THEN {targets[fault.at]} ELSE {}
    IN  [raised |-> IF fault.at = 0 THEN "none" ELSE "OSError",
         mfiles |-> Drop(mfiles, whole \cup half),
         metafiles |-> Drop(metafiles, whole)]

\* _create_default_model(): the rule-based classifier becomes the active model;
\* model_metadata is not touched.
create_default_model(mgr) ==
    [mgr EXCEPT !.current_model = RuleBasedModel,
                !.current_version = RuleBasedVersion,
                !.feature_names = RuleBasedFeatureNames]

\* load_latest_model(): load the highest stored version; raises when there is none.
load_latest_model(mgr, mfiles, metafiles) ==
    IF DOMAIN mfiles = {}
    THEN [raised |-> "FileNotFoundError", mgr |-> mgr]
    ELSE load_model(SortedDescending(DOMAIN mfiles)[1], mgr, mfiles, metafiles)

\* initialize() without the except clause.
initialize_without_default(mgr, mfiles, metafiles) ==
    load_latest_model(mgr, mfiles, metafiles).mgr

\* initialize(): load the latest model, and on any exception install the default.
initialize(mgr, mfiles, metafiles) ==
    LET r == load_latest_model(mgr, mfiles, metafiles)
    IN  IF r.raised = "none" THEN r.mgr ELSE create_default_model(r.mgr)

----------------------------------------------------------------------------
(* TrainingService. *)

\* dict.get(metric, 0).
GetOr0(d, k) == IF k \in DOMAIN d THEN d[k] ELSE 0

\* _should_deploy_model(new_metrics): deploy when the manager reports no metrics,
\* or when f1_score or roc_auc satisfies new_value > current_value * 1.02.
\* Metrics are integers of 1/10000, so the test is new * 100 > current * 102; for
\* the metric values used here the float product current * 1.02 compares the same
\* way (0.51 > 0.5 * 1.02 is False in IEEE double arithmetic).
should_deploy_model(current_metrics, new_metrics) ==
    IF DOMAIN current_metrics = {}
    THEN TRUE
    ELSE \E metric \in {"f1_score", "roc_auc"} :
             GetOr0(new_metrics, metric) * 100 > GetOr0(current_metrics, metric) * 102

\* A guard that never finds a run in progress.
training_never_in_progress(flag) == FALSE

\* The guard of run_training: `if self.is_training: return`.
training_in_progress(flag) == flag

\* An early return that clears the flag, as if the guard stood inside the try.
flag_cleared_on_skip(flag) == FALSE

\* The early return of the guard stands before the `try`, so the `finally` does not
\* run for it: the flag is left as the invocation found it.
flag_after_skip(flag) == flag

\* The flag cleared on the normal exits only, as if there were no `finally`.
flag_kept_on_exception(exit) == exit = "exception"

\* The `finally` of run_training: the flag after an invocation that passed the guard
\* leaves by the exit `exit`.
flag_after_exit(exit) == FALSE

\* The decision taken first and the model saved only when it is promoted (not what
\* the code does).
save_only_when_promoted(model, metrics, save_outcome, cleanup_fault, mgr, mfiles, metafiles) ==
    IF ~should_deploy_model(get_metrics(mgr), metrics)
    THEN [raised |-> "none", promoted |-> FALSE, mgr |-> mgr,
          mfiles |-> mfiles, metafiles |-> metafiles]
    ELSE LET saved == save_model(model, ExtractorFeatureNames, metrics, save_outcome,
                                 mfiles, metafiles)
         IN  IF saved.raised # "none"
             THEN [raised |-> saved.raised, promoted |-> FALSE, mgr |-> mgr,
                   mfiles |-> saved.mfiles, metafiles |-> saved.metafiles]
             ELSE LET loaded == load_model(saved.version, mgr, saved.mfiles, saved.metafiles)
                      cleaned == cleanup_old_versions(KeepVersions, loaded.mgr.current_version,
                                                      cleanup_fault, saved.mfiles,
                                                      saved.metafiles)
                  IN  [raised |-> cleaned.raised, promoted |-> TRUE, mgr |-> loaded.mgr,
                       mfiles |-> cleaned.mfiles, metafiles |-> cleaned.metafiles]

\* The store pruned before the new version is loaded (not what the code does).
prune_then_load(model, metrics, save_outcome, cleanup_fault, mgr, mfiles, metafiles) ==
    LET saved == save_model(model, ExtractorFeatureNames, metrics, save_outcome, mfiles, metafiles)
    IN  IF saved.raised # "none"
        THEN [raised |-> saved.raised, promoted |-> FALSE, mgr |-> mgr,
              mfiles |-> saved.mfiles, metafiles |-> saved.metafiles]
        ELSE IF ~should_deploy_model(get_metrics(mgr), metrics)
        THEN [raised |-> "none", promoted |-> FALSE, mgr |-> mgr,
              mfiles |-> saved.mfiles, metafiles |-> saved.metafiles]
        ELSE LET cleaned == cleanup_old_versions(KeepVersions, mgr.current_version,
                                                 cleanup_fault, saved.mfiles, saved.metafiles)
                 loaded == load_model(saved.version, mgr, cleaned.mfiles, cleaned.metafiles)
             IN  [raised |-> IF cleaned.raised # "none" THEN cleaned.raised ELSE loaded.raised,
                  promoted |-> TRUE,
                  mgr |-> IF cleaned.raised # "none" THEN mgr ELSE loaded.mgr,
                  mfiles |-> cleaned.mfiles, metafiles |-> cleaned.metafiles]

\* Lines 90-114 of run_training, which run without suspension once the dataset is
\* loaded: save the fitted model, decide, and on promotion load the new version and
\* prune.  The result is the state left and the exception that ended it, if any.
save_and_deploy(model, metrics, save_outcome, cleanup_fault, mgr, mfiles, metafiles) ==
    LET saved == save_model(model, ExtractorFeatureNames, metrics, save_outcome, mfiles, metafiles)
    IN  IF saved.raised # "none"
        THEN [raised |-> saved.raised, promoted |-> FALSE, mgr |-> mgr,
              mfiles |-> saved.mfiles, metafiles |-> saved.metafiles]
        ELSE IF ~should_deploy_model(get_metrics(mgr), metrics)
        THEN [raised |-> "none", promoted |-> FALSE, mgr |-> mgr,
              mfiles |-> saved.mfiles, metafiles |-> saved.metafiles]
        ELSE LET loaded == load_model(saved.version, mgr, saved.mfiles, saved.metafiles)
             IN  IF loaded.raised # "none"
                 THEN [raised |-> loaded.raised, promoted |-> FALSE, mgr |-> loaded.mgr,
                       mfiles |-> saved.mfiles, metafiles |-> saved.metafiles]
                 ELSE LET cleaned == cleanup_old_versions(KeepVersions, loaded.mgr.current_version,
                                                          cleanup_fault, saved.mfiles, saved.metafiles)
                      IN  [raised |-> cleaned.raised, promoted |-> TRUE, mgr |-> loaded.mgr,
                           mfiles |-> cleaned.mfiles, metafiles |-> cleaned.metafiles]

\* The version ids whose promotion decision was negative, after a save_and_deploy
\* that assigned new_version and ended as r: the new id joins them when the
\* candidate was saved and `if should_deploy` found False ("Model not deployed"),
\* and an id leaves them when its files are gone or the id was assigned anew.
declined_after(before, new_version, r) ==
    LET kept == (before \ {new_version}) \cap DOMAIN r.mfiles
    IN  IF r.raised = "none" /\ ~r.promoted THEN kept \cup {new_version} ELSE kept

\* The cleanup faults that can strike in save_and_deploy: one per version the
\* prune would delete after the save and the load of the new version.
DeployCleanupFaults(mfiles) ==
    LET new_version == new_version_id(mfiles)
    IN  CleanupFaults(Len(CleanupTargets(KeepVersions, new_version,
                                         Put(mfiles, new_version, PartialModelFile))))

----------------------------------------------------------------------------
(* The service: initial state and the actions of the event loop. *)

Trainers == 1..NumTrainers
Predictors == 1..NumPredictors

\* What the model directory may hold when the process starts: nothing, or
\* versions 1..StoredAtStart as earlier executions saved them.
EmptyStore == [mfiles |-> EmptyDict, metafiles |-> EmptyDict]
FullStore ==
    LET names == {NameOf[n] : n \in 1..StoredAtStart}
    IN  [mfiles |-> [v \in names |-> ModelFile(StoredModel(v), ExtractorFeatureNames)],
         metafiles |-> [v \in names |-> MetadataFile(v, ExtractorFeatureNames, BaseMetrics)]]
InitialStores == {EmptyStore, FullStore}

\* The locals of a predict task that has not scored yet.
NoLocal ==
    [is_bot |-> FALSE, confidence |-> 0, scored_by |-> None, fallback_by |-> None,
     scored_version |-> None, cache_version |-> None, model_version |-> None,
     blacklisted |-> FALSE, reason |-> None, error |-> None, raised |-> FALSE]

\* No add_to_blacklist call.
NoAddRequest == [ip_address |-> None, confidence_score |-> 0, expires_hours |-> 0]

\* Nothing asked of any collaborator yet: ip is the address of the visitor, adds the
\* number of add_to_blacklist calls made and add_request the arguments of the last.
NoEffects ==
    [ip |-> None, check |-> "none", extracted |-> FALSE, classified |-> FALSE,
     cache |-> "none", blacklist_add |-> "none", adds |-> 0, add_request |-> NoAddRequest]

\* A registry call and its outcome: the operation, the version it named or returned,
\* keep_versions, the exception raised, and for a save the feature order and metrics given.
Call(op, version, keep, raised, fo, metrics) ==
    [op |-> op, version |-> version, keep |-> keep, raised |-> raised,
     fo |-> fo, metrics |-> metrics]
NoCall == Call("none", None, 0, "none", <<>>, EmptyDict)

\* ModelManager.__init__ and TrainingService.__init__.
InitProcess ==
    /\ phase = "constructed"
    /\ current_model = None
    /\ current_version = None
    /\ feature_names = None
    /\ model_metadata = EmptyDict
    /\ is_training = FALSE
    /\ train_pc = [t \in Trainers |-> "none"]
    /\ last_exit = "none"
    /\ saves = 0
    /\ faults = 0
    /\ pred_pc = [p \in Predictors |-> "none"]
    /\ pred_local = [p \in Predictors |-> NoLocal]

InitHistory ==
    /\ effects = NoEffects
    /\ last_call = NoCall
    /\ save_returns = <<>>
    /\ dep_current = EmptyDict
    /\ dep_new = EmptyDict
    /\ dep_result = "undecided"
    /\ declined = {}

\* No visitor signal has been handed to the extractor.
NoExtraction == [raised |-> "not_called", vector |-> <<>>]
NoVerdict == [called |-> FALSE, is_bot |-> FALSE, confidence |-> 0]
NoRequestYet ==
    /\ signal = EmptyDict
    /\ extracted = NoExtraction
    /\ verdict = NoVerdict

\* prepare_training_data has not been called.
NotPrepared == [called |-> FALSE, X |-> <<>>, y |-> <<>>]
NoBalancing ==
    /\ labels_list = <<>>
    /\ prepared = NotPrepared
\* _extract_geo_features has not been called on its own.
NoGeoCall ==
    /\ targeted = EmptyDict
    /\ geo_features = NoExtraction
\* detect has not been called.
NotDetected ==
    [called |-> FALSE, is_headless |-> FALSE, confidence |-> 0, framework |-> "unknown",
     risk_score |-> 0]
NoDetection ==
    /\ detect_input = EmptyDict
    /\ detection = NotDetected
NoFunctionCalled == NoBalancing /\ NoGeoCall /\ NoDetection

Init ==
    /\ \E store \in InitialStores :
           /\ model_files = store.mfiles
           /\ metadata_files = store.metafiles
    /\ InitProcess
    /\ InitHistory
    /\ NoRequestYet
    /\ NoFunctionCalled

SetManager(mgr) ==
    /\ current_model' = mgr.current_model
    /\ current_version' = mgr.current_version
    /\ feature_names' = mgr.feature_names
    /\ model_metadata' = mgr.model_metadata

\* lifespan: model_manager.initialize(), then the services and the scheduler exist.
Initialize ==
    /\ phase = "constructed"
    /\ phase' = "serving"
    /\ SetManager(initialize(Manager, model_files, metadata_files))
    /\ UNCHANGED <<store_vars, training_vars, saves, faults, predict_vars,
                   registry_history_vars, deploy_vars, extract_vars, function_vars, declined>>

\* POST /train/trigger (asyncio.create_task) or the scheduler's interval job:
\* a run_training coroutine is created; it has not run yet.
TriggerTraining(t) ==
    /\ phase = "serving"
    /\ train_pc[t] = "none"
    /\ train_pc' = [train_pc EXCEPT ![t] = "start"]
    /\ UNCHANGED <<phase, store_vars, manager_vars, is_training, last_exit, saves, faults,
                   predict_vars, registry_history_vars, deploy_vars, extract_vars, function_vars, declined>>

\* An invocation that passed the guard leaves run_training: the finally clause runs
\* and the coroutine returns.
FinishTraining(t, exit) ==
    /\ is_training' = flag_after_exit(exit)
    /\ train_pc' = [train_pc EXCEPT ![t] = "none"]
    /\ last_exit' = exit

\* run_training from its first line to the first suspension: the guard, the flag,
\* and the call of _get_training_sample_count.
RunTrainingStart(t) ==
    /\ train_pc[t] = "start"
    /\ IF training_in_progress(is_training)
       THEN /\ train_pc' = [train_pc EXCEPT ![t] = "none"]
            /\ last_exit' = "skipped"
            /\ is_training' = flag_after_skip(is_training)
       ELSE /\ is_training' = TRUE
            /\ train_pc' = [train_pc EXCEPT ![t] = "count"]
            /\ UNCHANGED last_exit
    /\ UNCHANGED <<phase, store_vars, manager_vars, saves, faults, predict_vars,
                   registry_history_vars, deploy_vars, extract_vars, function_vars, declined>>

\* The sample count arrives (or the database raises): too few samples return,
\* enough samples call _load_training_data.
RunTrainingCounted(t) ==
    /\ train_pc[t] = "count"
    /\ \E result \in {"exception", "too_few", "enough"} :
           IF result = "enough"
           THEN /\ train_pc' = [train_pc EXCEPT ![t] = "load"]
                /\ UNCHANGED <<is_training, last_exit>>
           ELSE FinishTraining(t, result)
    /\ UNCHANGED <<phase, store_vars, manager_vars, saves, faults, predict_vars,
                   registry_history_vars, deploy_vars, extract_vars, function_vars, declined>>

\* The dataset arrives and is not usable: the database raised, or no sample parsed.
RunTrainingNoData(t) ==
    /\ train_pc[t] = "load"
    /\ \E result \in {"exception", "no_data"} : FinishTraining(t, result)
    /\ UNCHANGED <<phase, store_vars, manager_vars, saves, faults, predict_vars,
                   registry_history_vars, deploy_vars, extract_vars, function_vars, declined>>

\* The dataset arrives and the trainer raises (train is a blocking call).
RunTrainingFitFails(t) ==
    /\ train_pc[t] = "load"
    /\ FinishTraining(t, "exception")
    /\ UNCHANGED <<phase, store_vars, manager_vars, saves, faults, predict_vars,
                   registry_history_vars, deploy_vars, extract_vars, function_vars, declined>>

\* The dataset arrives and the trainer returns a model and its metrics: save,
\* decide, deploy and prune run without suspension; then _update_training_metrics
\* waits for redis, or an exception ends the run.
RunTrainingTrained(t) ==
    /\ train_pc[t] = "load"
    /\ saves < MaxSaves
    /\ saves' = saves + 1
    /\ \E metrics \in TrainedMetrics,
          save_outcome \in {"ok"} \cup (IF faults < MaxFaults THEN SaveFaults ELSE {}),
          cleanup_fault \in {NoFault} \cup (IF faults < MaxFaults
                                            THEN DeployCleanupFaults(model_files) ELSE {}) :
           LET r == save_and_deploy(TrainedModel(saves + 1), metrics, save_outcome,
                                    cleanup_fault, Manager, model_files, metadata_files)
               cleanup_reached == save_outcome = "ok" /\ r.promoted
           IN  /\ cleanup_fault # NoFault => cleanup_reached
               /\ model_files' = r.mfiles
               /\ metadata_files' = r.metafiles
               /\ SetManager(r.mgr)
               /\ faults' = IF save_outcome # "ok" \/ cleanup_fault # NoFault
                            THEN faults + 1 ELSE faults
               /\ declined' = declined_after(declined, new_version_id(model_files), r)
               /\ IF r.raised # "none"
                  THEN FinishTraining(t, "exception")
                  ELSE /\ train_pc' = [train_pc EXCEPT ![t] = "redis_metrics"]
                       /\ UNCHANGED <<is_training, last_exit>>
    /\ UNCHANGED <<phase, predict_vars, registry_history_vars, deploy_vars, extract_vars,
                   function_vars>>

\* _update_training_metrics: the first redis.set returns, or raises and is logged.
RunTrainingMetricsStored(t) ==
    /\ train_pc[t] = "redis_metrics"
    /\ \E result \in {"ok", "exception"} :
           IF result = "ok"
           THEN /\ train_pc' = [train_pc EXCEPT ![t] = "redis_queue"]
                /\ UNCHANGED <<is_training, last_exit>>
           ELSE FinishTraining(t, "completed")
    /\ UNCHANGED <<phase, store_vars, manager_vars, saves, faults, predict_vars,
                   registry_history_vars, deploy_vars, extract_vars, function_vars, declined>>

\* _update_training_metrics: the second redis.set returns or raises; run_training ends.
RunTrainingQueueReset(t) ==
    /\ train_pc[t] = "redis_queue"
    /\ FinishTraining(t, "completed")
    /\ UNCHANGED <<phase, store_vars, manager_vars, saves, faults, predict_vars,
                   registry_history_vars, deploy_vars, extract_vars, function_vars, declined>>

\* The version ids a caller asks for: "1" (the first id ever saved), the newest id
\* of a store found full at start-up, the id the first save adds to such a store,
\* and "01", which int() reads as 1 but which names no file.
RequestedVersions == {"1", "01", NameOf[StoredAtStart], NameOf[StoredAtStart + 1]}

\* The versions rolled back to while training runs: the oldest id, which a prune
\* after a promotion deletes unless it is active, and the id the first save adds.
RollbackVersions == {"1", NameOf[StoredAtStart + 1]}

\* POST /model/rollback/{version}: load_model(version); an exception becomes a 500.
Rollback(version) ==
    /\ phase = "serving"
    /\ SetManager(load_model(version, Manager, model_files, metadata_files).mgr)
    /\ UNCHANGED <<phase, store_vars, training_vars, saves, faults, predict_vars,
                   registry_history_vars, deploy_vars, extract_vars, function_vars, declined>>

Next ==
    \/ Initialize
    \/ \E t \in Trainers :
           \/ TriggerTraining(t)
           \/ RunTrainingStart(t)
           \/ RunTrainingCounted(t)
           \/ RunTrainingNoData(t)
           \/ RunTrainingFitFails(t)
           \/ RunTrainingTrained(t)
           \/ RunTrainingMetricsStored(t)
           \/ RunTrainingQueueReset(t)
    \/ \E version \in RollbackVersions : Rollback(version)

Spec == Init /\ [][Next]_vars

\* A step of run_training invocation t after the guard: every wait of the coroutine
\* (the database, redis) ends with a result or an exception, and the event loop
\* resumes the task.
TrainingStep(t) ==
    \/ RunTrainingCounted(t)
    \/ RunTrainingNoData(t)
    \/ RunTrainingFitFails(t)
    \/ RunTrainingTrained(t)
    \/ RunTrainingMetricsStored(t)
    \/ RunTrainingQueueReset(t)

FairSpec == Spec /\ \A t \in Trainers : WF_vars(TrainingStep(t))

\* The process ends (lifespan's shutdown, or a kill) and is started again: the
\* coroutines and the objects in memory are gone, ModelManager.__init__ and
\* TrainingService.__init__ have run anew, and the model directory is as it was
\* left.  lifespan's start-up (Initialize) follows.
ProcessRestart ==
    /\ phase = "serving"
    /\ phase' = "constructed"
    /\ current_model' = None
    /\ current_version' = None
    /\ feature_names' = None
    /\ model_metadata' = EmptyDict
    /\ is_training' = FALSE
    /\ train_pc' = [t \in Trainers |-> "none"]
    /\ last_exit' = "none"
    /\ pred_pc' = [p \in Predictors |-> "none"]
    /\ pred_local' = [p \in Predictors |-> NoLocal]
    /\ UNCHANGED <<store_vars, saves, faults, effects, registry_history_vars, deploy_vars,
                   extract_vars, function_vars, declined>>

\* The service of Spec with process restarts.
RestartNext ==
    \/ Next
    \/ ProcessRestart

RestartSpec == Init /\ [][RestartNext]_vars

----------------------------------------------------------------------------
(* The scoring path: PredictionService.predict tasks on the event loop while *)
(* POST /model/rollback loads other versions.                                *)

\* What the classifier does with one feature vector: predict_proba returns a bot
\* probability (in 1/100), or it raises and the fallback call of predict returns a
\* class or raises as well.
ClassifierOutcomes ==
    {[raises |-> FALSE, proba |-> pr, fallback |-> "unused"] :
         pr \in {30, 50, 51, 70, 71, 84, 85, 94, 95}}
    \cup {[raises |-> TRUE, proba |-> 0, fallback |-> f] : f \in {"0", "1", "raises"}}

\* predict whose fallback call goes to another classifier than the one that raised.
predict_fallback_elsewhere(model, outcome) ==
    IF model = None
    THEN [raised |-> "RuntimeError", is_bot |-> FALSE, confidence |-> 0,
          scored_by |-> None, fallback_by |-> None]
    ELSE IF ~outcome.raises
    THEN [raised |-> "none", is_bot |-> outcome.proba > 50, confidence |-> outcome.proba,
          scored_by |-> model, fallback_by |-> None]
    ELSE [raised |-> "none", is_bot |-> outcome.fallback = "1", confidence |-> 50,
          scored_by |-> model, fallback_by |-> RuleBasedModel]

\* ModelManager.predict(features): what it raised, the pair it returned, and the
\* classifier objects whose predict_proba and predict it called.
predict(model, outcome) ==
    IF model = None
    THEN [raised |-> "RuntimeError", is_bot |-> FALSE, confidence |-> 0,
          scored_by |-> None, fallback_by |-> None]
    ELSE IF ~outcome.raises
    THEN [raised |-> "none", is_bot |-> outcome.proba > 50, confidence |-> outcome.proba,
          scored_by |-> model, fallback_by |-> None]
    ELSE IF outcome.fallback = "raises"
    THEN [raised |-> "ClassifierError", is_bot |-> FALSE, confidence |-> 0,
          scored_by |-> model, fallback_by |-> model]
    ELSE [raised |-> "none", is_bot |-> outcome.fallback = "1", confidence |-> 50,
          scored_by |-> model, fallback_by |-> model]

\* What the backend answers to GET /blacklist/check/<ip>: status 200 with a body whose
\* isBlacklisted is truthy ("listed") or falsy ("clear"), a 200 body without that key,
\* a 200 body that is not JSON or not a JSON object, status 400, another status, or
\* the request raises (timeout, connection refused, anything else).
BlacklistAnswers ==
    {"listed", "clear", "no_key", "not_json", "not_object", "status_400", "status_500",
     "timeout", "connect_error", "other_error"}
\* The answers that are not a well-formed 200 reply.
BlacklistFailures == BlacklistAnswers \ {"listed", "clear"}

\* is_blacklisted that never finds an address listed.
is_blacklisted_never(answer) == FALSE

\* is_blacklisted that takes every failure for a listing.
is_blacklisted_fail_closed(answer) == answer # "clear"

\* BlacklistService.is_blacklisted(ip): the value it returns.  Every branch but the
\* well-formed 200 reply returns False; the exceptions (a raising request, a body
\* json() or .get cannot read) are caught inside the method.
is_blacklisted(answer) ==
    CASE answer = "listed" -> TRUE
      [] answer = "clear" -> FALSE
      [] answer = "no_key" -> FALSE
      [] answer \in {"status_400", "status_500"} -> FALSE
      [] answer \in {"timeout", "connect_error"} -> FALSE
      [] OTHER -> FALSE

\* The Decision returned for a blacklisted address.
BlacklistDecision ==
    [NoLocal EXCEPT !.is_bot = TRUE, !.confidence = 100, !.model_version = "blacklist_v1",
                    !.blacklisted = TRUE, !.reason = "IP found in blacklist"]

\* The `except` clause with the neutral Decision replaced by re-raising.
ErrorRaised(local, error) ==
    [local EXCEPT !.model_version = None, !.error = error, !.raised = TRUE]

\* The Decision of the `except` clause of PredictionService.predict.
ErrorDecision(local, error) ==
    [local EXCEPT !.is_bot = FALSE, !.confidence = 50, !.model_version = "error",
                  !.reason = None, !.error = error]

\* The return of PredictionService.predict after scoring:
\* modelVersion is current_version as it is when the coroutine returns.
ScoredDecision(local, version) ==
    [local EXCEPT !.model_version = IF version = None THEN "unknown" ELSE version,
                  !.reason = "detection"]

\* predict from the blacklist answer to its next suspension or return: a listed
\* address returns the blacklist Decision; otherwise the features are extracted
\* (which may raise), the classifier scores them, and _cache_prediction builds its
\* value (reading current_version) and waits for redis.  extracted and classified
\* tell whether extract_features and ModelManager.predict were called.
check_step(answer, extraction, outcome, model, version) ==
    IF is_blacklisted(answer)
    THEN [pc |-> "returned", local |-> BlacklistDecision,
          extracted |-> FALSE, classified |-> FALSE]
    ELSE IF extraction = "raises"
    THEN [pc |-> "returned", local |-> ErrorDecision(NoLocal, "extract_features"),
          extracted |-> TRUE, classified |-> FALSE]
    ELSE LET r == predict(model, outcome)
         IN  IF r.raised # "none"
             THEN [pc |-> "returned",
                   local |-> ErrorDecision([NoLocal EXCEPT !.scored_by = r.scored_by,
                                                           !.fallback_by = r.fallback_by],
                                           r.raised),
                   extracted |-> TRUE, classified |-> TRUE]
             ELSE [pc |-> "cache",
                   local |-> [NoLocal EXCEPT !.is_bot = r.is_bot,
                                             !.confidence = r.confidence,
                                             !.scored_by = r.scored_by,
                                             !.fallback_by = r.fallback_by,
                                             !.scored_version = version,
                                             !.cache_version = version],
                   extracted |-> TRUE, classified |-> TRUE]

\* The end of predict: the log line and the Decision, whose assembly
\* (_get_detection_reason, the conversions) runs inside the try as well.
return_step(local, assembly, version) ==
    [pc |-> "returned",
     local |-> IF assembly = "raises" THEN ErrorDecision(local, "assembly")
               ELSE ScoredDecision(local, version)]

\* What redis.setex does with the cache entry, and what the backend does with the
\* blacklist addition: it adds the address, refuses (a status other than 200 and
\* 201), or the request or the computation of its reason raises.
CacheResults == {"written", "failed"}
AddResults == {"added", "refused", "failed"}

\* cache_step with the exception of the cache write reaching predict's handler.
cache_step_propagating(local, cache_result, assembly, version) ==
    IF cache_result = "failed"
    THEN [pc |-> "returned", local |-> ErrorDecision(local, "cache")]
    ELSE IF local.is_bot /\ local.confidence > 70
    THEN [pc |-> "blacklist_add", local |-> local]
    ELSE return_step(local, assembly, version)

\* predict after _cache_prediction returned (the write done, or its exception
\* logged inside _cache_prediction): a bot with confidence above 0.7 goes on to
\* _add_to_blacklist_if_bot and waits for the backend; any other result is returned.
cache_step(local, cache_result, assembly, version) ==
    IF local.is_bot /\ local.confidence > 70
    THEN [pc |-> "blacklist_add", local |-> local]
    ELSE return_step(local, assembly, version)

\* predict after _add_to_blacklist_if_bot returned (the address added or refused, or
\* the exception logged inside _add_to_blacklist_if_bot): the Decision is returned.
add_step(local, add_result, assembly, version) ==
    return_step(local, assembly, version)

\* The duration with the tiers compared strictly (not what the code does).
get_blacklist_duration_strict(confidence) ==
    IF confidence > 95 THEN 72
    ELSE IF confidence > 85 THEN 48
    ELSE 24

\* _get_blacklist_duration(confidence): hours, by confidence in 1/100.
get_blacklist_duration(confidence) ==
    IF confidence >= 95 THEN 72
    ELSE IF confidence >= 85 THEN 48
    ELSE 24

\* _add_to_blacklist_if_bot: the arguments of its add_to_blacklist call.
blacklist_add_request(ip_address, local) ==
    [ip_address |-> ip_address, confidence_score |-> local.confidence,
     expires_hours |-> get_blacklist_duration(local.confidence)]

\* The inputs of the steps: whether extract_features and the Decision assembly raise.
StepResults == {"ok", "raises"}

PredictFrame ==
    UNCHANGED <<phase, store_vars, manager_vars, training_vars, saves, faults,
                registry_history_vars, deploy_vars, extract_vars, function_vars, declined, effects>>

\* POST /analyze: a predict coroutine starts and waits for the blacklist lookup.
PredictStart(p) ==
    /\ phase = "serving"
    /\ pred_pc[p] \in {"none", "returned"}
    /\ pred_pc' = [pred_pc EXCEPT ![p] = "blacklist"]
    /\ pred_local' = [pred_local EXCEPT ![p] = NoLocal]
    /\ PredictFrame

\* The blacklist lookup ends: check_step.
PredictBlacklistChecked(p) ==
    /\ pred_pc[p] = "blacklist"
    /\ \E answer \in BlacklistAnswers, extraction \in StepResults,
          outcome \in ClassifierOutcomes :
           LET r == check_step(answer, extraction, outcome, current_model, current_version)
           IN  /\ pred_pc' = [pred_pc EXCEPT ![p] = r.pc]
               /\ pred_local' = [pred_local EXCEPT ![p] = r.local]
    /\ PredictFrame

\* redis.setex returns or raises (logged): cache_step.
PredictCached(p) ==
    /\ pred_pc[p] = "cache"
    /\ \E cache_result \in CacheResults, assembly \in StepResults :
           LET r == cache_step(pred_local[p], cache_result, assembly, current_version)
           IN  /\ pred_pc' = [pred_pc EXCEPT ![p] = r.pc]
               /\ pred_local' = [pred_local EXCEPT ![p] = r.local]
    /\ PredictFrame

\* add_to_blacklist returns or raises (logged): the Decision is returned.
PredictBlacklistAdded(p) ==
    /\ pred_pc[p] = "blacklist_add"
    /\ \E add_result \in AddResults, assembly \in StepResults :
           LET r == add_step(pred_local[p], add_result, assembly, current_version)
           IN  /\ pred_pc' = [pred_pc EXCEPT ![p] = r.pc]
               /\ pred_local' = [pred_local EXCEPT ![p] = r.local]
    /\ PredictFrame

ScoringNext ==
    \/ Initialize
    \/ \E version \in RequestedVersions : Rollback(version)
    \/ \E p \in Predictors :
           \/ PredictStart(p)
           \/ PredictBlacklistChecked(p)
           \/ PredictCached(p)
           \/ PredictBlacklistAdded(p)

ScoringSpec == Init /\ [][ScoringNext]_vars

----------------------------------------------------------------------------
(* One predict request at a time, with what its collaborators answered and   *)
(* what the request did to them recorded in `effects`.                       *)

\* The request whose effects are recorded.
Observed == CHOOSE p \in Predictors : TRUE

\* visitor_data['ip'] of the requests.
VisitorAddresses == {"203.0.113.45", "54.239.123.45"}

RequestFrame ==
    UNCHANGED <<phase, store_vars, manager_vars, training_vars, saves, faults,
                registry_history_vars, deploy_vars, extract_vars, function_vars, declined>>

ReqStart ==
    /\ phase = "serving"
    /\ pred_pc[Observed] \in {"none", "returned"}
    /\ pred_pc' = [pred_pc EXCEPT ![Observed] = "blacklist"]
    /\ pred_local' = [pred_local EXCEPT ![Observed] = NoLocal]
    /\ \E ip \in VisitorAddresses : effects' = [NoEffects EXCEPT !.ip = ip]
    /\ RequestFrame

ReqBlacklistChecked ==
    /\ pred_pc[Observed] = "blacklist"
    /\ \E answer \in BlacklistAnswers, extraction \in StepResults,
          outcome \in ClassifierOutcomes :
           LET r == check_step(answer, extraction, outcome, current_model, current_version)
           IN  /\ pred_pc' = [pred_pc EXCEPT ![Observed] = r.pc]
               /\ pred_local' = [pred_local EXCEPT ![Observed] = r.local]
               /\ effects' = [effects EXCEPT !.check = answer,
                                             !.extracted = r.extracted,
                                             !.classified = r.classified,
                                             !.cache = IF r.pc = "cache" THEN "requested"
                                                       ELSE "none"]
    /\ RequestFrame

ReqCached ==
    /\ pred_pc[Observed] = "cache"
    /\ \E cache_result \in CacheResults, assembly \in StepResults :
           LET r == cache_step(pred_local[Observed], cache_result, assembly, current_version)
           IN  /\ pred_pc' = [pred_pc EXCEPT ![Observed] = r.pc]
               /\ pred_local' = [pred_local EXCEPT ![Observed] = r.local]
               /\ effects' =
                      IF r.pc = "blacklist_add"
                      THEN [effects EXCEPT !.cache = cache_result,
                                           !.blacklist_add = "requested",
                                           !.adds = @ + 1,
                                           !.add_request =
                                               blacklist_add_request(effects.ip, r.local)]
                      ELSE [effects EXCEPT !.cache = cache_result,
                                           !.blacklist_add = "none"]
    /\ RequestFrame

ReqBlacklistAdded ==
    /\ pred_pc[Observed] = "blacklist_add"
    /\ \E add_result \in AddResults, assembly \in StepResults :
           LET r == add_step(pred_local[Observed], add_result, assembly, current_version)
           IN  /\ pred_pc' = [pred_pc EXCEPT ![Observed] = r.pc]
               /\ pred_local' = [pred_local EXCEPT ![Observed] = r.local]
               /\ effects' = [effects EXCEPT !.blacklist_add = add_result]
    /\ RequestFrame

RequestNext ==
    \/ Initialize
    \/ \E version \in RequestedVersions : Rollback(version)
    \/ ReqStart
    \/ ReqBlacklistChecked
    \/ ReqCached
    \/ ReqBlacklistAdded

RequestSpec == Init /\ [][RequestNext]_vars

----------------------------------------------------------------------------
(* _should_deploy_model as a function of the two metric dicts it compares.   *)

\* Metric values around a 2% relative improvement over 0.5000: none, 1.5%, exactly
\* 2%, 2.5%; and 0 for a metric the active version scored 0 on.
CandidateValues == {5000, 5075, 5100, 5125}
\* What get_metrics() may return: {} (no metadata loaded), or a trainer's metrics.
ActiveMetrics == {EmptyDict} \cup {Metrics(f1, auc, 5000) : f1 \in {0, 5000}, auc \in {0, 5000}}
\* What the trainer may report for the candidate.
CandidateMetrics ==
    {Metrics(f1, auc, prec) : f1 \in CandidateValues, auc \in CandidateValues,
                              prec \in {4000, 9000}}

\* One call of _should_deploy_model(new_metrics) with the manager reporting current.
DeployDecide(current, new) ==
    /\ dep_current' = current
    /\ dep_new' = new
    /\ dep_result' = IF should_deploy_model(current, new) THEN "deploy" ELSE "keep"
    /\ UNCHANGED <<phase, store_vars, manager_vars, training_vars, saves, faults,
                   predict_vars, registry_history_vars, extract_vars, function_vars, declined>>

DeployNext == \E current \in ActiveMetrics, new \in CandidateMetrics : DeployDecide(current, new)

DeploySpec == Init /\ [][DeployNext]_vars

----------------------------------------------------------------------------
(* Start-up: initialize() on whatever store earlier executions left.         *)

\* The version ids found at start-up are drawn from these: "10" is the highest as a
\* number and not as a string.
StartupVersions == {"2", "9", "10"}

\* What an earlier execution can leave of one version: nothing; both files whole; a
\* partial pickle (save_model failed while writing it); a pickle and no metadata
\* (the metadata file could not be opened); a pickle and partial metadata (the JSON
\* write failed); metadata only (cleanup_old_versions failed between its unlinks).
VersionStates == {"absent", "whole", "partial_model", "no_metadata", "partial_metadata",
                  "metadata_only"}

\* The store in which version v is in state st[v].
StoreOf(st) ==
    [mfiles |->
         [v \in {w \in DOMAIN st : st[w] \notin {"absent", "metadata_only"}} |->
              IF st[v] = "partial_model" THEN PartialModelFile
              ELSE ModelFile(StoredModel(v), ExtractorFeatureNames)],
     metafiles |->
         [v \in {w \in DOMAIN st : st[w] \in {"whole", "partial_metadata", "metadata_only"}} |->
              IF st[v] = "partial_metadata" THEN PartialMetadataFile
              ELSE MetadataFile(v, ExtractorFeatureNames, BaseMetrics)]]

StartupStores == {StoreOf(st) : st \in [StartupVersions -> VersionStates]}

StartupInit ==
    /\ \E store \in StartupStores :
           /\ model_files = store.mfiles
           /\ metadata_files = store.metafiles
    /\ InitProcess
    /\ InitHistory
    /\ NoRequestYet
    /\ NoFunctionCalled

StartupSpec == StartupInit /\ [][Initialize]_vars

----------------------------------------------------------------------------
(* FeatureExtractor.extract_features and the rule-based classifier as        *)
(* functions of the visitor data.  A feature value is an integer number of   *)
(* 1/1000, a rule-based score an integer number of 1/1000000.                *)

\* Python values found in a visitor dict: None, a dict, a str.  The members of the
\* geo, device, browser and os dicts are strings in every signal drawn here.
PyNone == [type |-> "NoneType"]
PyDict(items) == [type |-> "dict", items |-> items]
PyStr(s) == [type |-> "str", value |-> s]
\* A user agent string, with what the extractor reads from its lower-cased text: its
\* length and which of the substrings and patterns it searches for occur in it.
UserAgent(text, length, has) == [type |-> "str", value |-> text, length |-> length, has |-> has]

\* d.get(k, default) on a dict held as a function from keys to values.
PyGet(d, k, default) == IF k \in DOMAIN d THEN d[k] ELSE default
\* bool(v).
Truthy(v) ==
    CASE v.type = "NoneType" -> FALSE
      [] v.type = "dict" -> DOMAIN v.items # {}
      [] v.type = "str" -> v.value # ""
\* float(b) for a bool.
Float(b) == IF b THEN 1000 ELSE 0

\* s.lower() for the strings met here.
LowerCase ==
    [s \in {"Chrome", "Chicago", "New York", "Mac OS", "Windows"} |->
        CASE s = "Chrome" -> "chrome" [] s = "Chicago" -> "chicago"
          [] s = "New York" -> "new york" [] s = "Mac OS" -> "mac os"
          [] s = "Windows" -> "windows"]
Lower(s) == IF s \in DOMAIN LowerCase THEN LowerCase[s] ELSE s

\* What a feature group returns: the exception it raised, or its list of entries.
\* An entry carries the group that produced it and its value.
Raise(e) == [raised |-> e, vector |-> <<>>]
Return(vec) == [raised |-> "none", vector |-> vec]
Entry(group, value) == [group |-> group, value |-> value]
Group(group, values) == Return([i \in 1 .. Len(values) |-> Entry(group, values[i])])
\* The value of an entry computed from fingerprint, session or header-order data,
\* which this model does not compute.
NotComputed == "<not computed>"
Block(group, n) == [i \in 1 .. n |-> Entry(group, NotComputed)]

\* _initialize_feature_names: the canonical names, one extend() per group.
GroupNames ==
    <<<<"ua_length", "ua_bot_keyword", "ua_crawler_keyword", "ua_missing_browser",
       "ua_outdated_browser", "ua_suspicious_pattern">>,
      <<"header_count", "has_accept_language", "has_accept_encoding", "has_referer",
       "has_dnt", "has_proxy_headers", "header_anomaly_score">>,
      <<"is_datacenter_ip", "geo_missing", "country_risk_score", "city_population_log",
       "timezone_mismatch">>,
      <<"is_mobile", "is_tablet", "is_desktop", "is_unknown_device",
       "browser_market_share", "os_market_share", "device_browser_mismatch">>,
      <<"request_hour", "request_day_of_week", "session_duration",
       "page_views_per_minute", "click_pattern_score">>,
      <<"ip_reputation_score", "asn_type_score", "connection_type_score",
       "tls_fingerprint_common", "tcp_fingerprint_match">>,
      <<"headless_confidence", "headless_risk_score", "is_automation_framework",
       "headless_detection_count", "is_puppeteer", "is_selenium", "is_phantomjs",
       "is_playwright">>,
      <<"canvas_available", "canvas_consistent", "canvas_entropy",
       "canvas_noise_pattern", "canvas_text_rendering", "webgl_available",
       "webgl_vendor_suspicious", "webgl_renderer_suspicious", "webgl_extension_count",
       "webgl_parameters_entropy", "webgl_consistent", "audio_available",
       "audio_entropy", "audio_consistent", "audio_compressor_dynamics",
       "audio_oscillator_signature", "screen_resolution_common", "pixel_ratio_standard",
       "screen_orientation_normal", "hardware_concurrency_normal",
       "device_memory_available", "connection_info_available", "plugin_count_normal",
       "language_count_normal", "timezone_consistent", "platform_consistent",
       "cookies_enabled", "dnt_header_present", "rendering_time_normal",
       "canvas_render_speed", "webgl_render_speed", "audio_processing_speed",
       "execution_timing_consistent">>,
      <<"request_timing_human", "request_frequency_normal", "session_depth_normal",
       "page_sequence_logical", "interaction_pattern_human", "header_order_normal",
       "header_casing_standard", "header_completeness", "accept_header_realistic",
       "encoding_preferences_normal", "ip_geolocation_consistent", "asn_residential",
       "proxy_indicators", "tor_exit_node", "vpn_indicators", "datacenter_hosting",
       "tls_ja3_known", "tcp_window_size_normal", "tcp_options_standard",
       "tls_cipher_order_normal", "tls_extension_order_normal", "request_time_human",
       "timezone_header_match", "clock_skew_normal", "response_timing_analysis",
       "think_time_realistic">>,
      <<"fingerprint_stability", "fingerprint_uniqueness", "spoofing_indicators",
       "inconsistent_properties", "override_detection", "mouse_movement_entropy",
       "click_timing_human", "keyboard_timing_human", "scroll_behavior_natural",
       "focus_change_patterns", "js_execution_timing", "dom_manipulation_speed",
       "event_handling_normal", "memory_usage_pattern", "cpu_usage_normal",
       "image_loading_behavior", "css_loading_timing", "font_loading_normal",
       "third_party_requests", "cdn_usage_pattern", "webdriver_properties",
       "automation_globals", "debug_properties", "extension_interference",
       "performance_timing_analysis">>,
      <<"content_interaction_depth", "reading_time_realistic", "scroll_depth_normal",
       "form_filling_speed", "link_following_pattern", "session_continuity",
       "cross_page_consistency", "referrer_chain_logical", "bounce_rate_normal",
       "engagement_metrics", "rotated_fingerprints", "proxy_rotation_detected",
       "ua_rotation_detected", "timing_attack_resistance", "entropy_manipulation",
       "prediction_confidence", "ensemble_agreement", "outlier_score",
       "clustering_distance", "anomaly_detection_score",
       "browser_extension_fingerprint", "font_fingerprint_entropy",
       "css_feature_detection">>>>

GroupIds ==
    <<"ua", "header", "geo", "device", "behavioral", "network", "headless",
      "advanced_fingerprint", "behavioral_pattern", "evasion_detection", "ml_analysis">>
RECURSIVE Concat(_)
Concat(seqs) == IF seqs = <<>> THEN <<>> ELSE Head(seqs) \o Concat(Tail(seqs))

\* FeatureExtractor.feature_names after __init__.
extractor_feature_names == Concat(GroupNames)
\* For each canonical name, in order, the group whose extend() added it.
NameGroups ==
    Concat([g \in 1 .. Len(GroupNames) |-> [i \in 1 .. Len(GroupNames[g]) |-> GroupIds[g]]])

\* _is_outdated_browser(browser): int(version.split('.')[0]) against the browser's
\* threshold; a version that is not a number raises inside the try and gives False.
MajorVersion == [v \in {"119.0", "89.0"} |-> IF v = "119.0" THEN 119 ELSE 89]
is_outdated_browser(browser) ==
    LET name == PyGet(browser, "name", None)
        version == PyGet(browser, "version", None)
    IN  IF name \in {None, ""} \/ version \in {None, ""} THEN FALSE
        ELSE IF version \notin DOMAIN MajorVersion THEN FALSE
        ELSE \/ (Lower(name) = "chrome" /\ MajorVersion[version] < 90)
             \/ (Lower(name) = "firefox" /\ MajorVersion[version] < 85)
             \/ (Lower(name) = "safari" /\ MajorVersion[version] < 14)

\* _has_suspicious_ua_pattern(ua): one of the four regular expressions matches
\* ("dotted_quad" is \b\d{1,3}\.\d{1,3}\.\d{1,3}\.\d{1,3}\b, "compatible_end" is
\* compatible;\s*$, "java" is java(?!script)).
SuspiciousPatterns ==
    {"python", "curl", "wget", "go-http", "java", "headless", "phantom", "selenium",
     "dotted_quad", "compatible_end"}
\* No user agent is suspicious (not what the code does).
no_suspicious_ua_pattern(ua) == FALSE
has_suspicious_ua_pattern(ua) == ua.has \cap SuspiciousPatterns # {}

\* _extract_ua_features(data).
extract_ua_features(data) ==
    LET ua == PyGet(data, "userAgent", UserAgent("", 0, {}))
        browser == PyGet(data, "browser", PyDict(EmptyDict))
    IN  IF browser.type # "dict" THEN Raise("AttributeError")
        ELSE Group("ua",
               <<ua.length * 1000,
                 Float(ua.has \cap {"bot", "crawl", "spider"} # {}),
                 Float(ua.has \cap {"googlebot", "bingbot", "yandex"} # {}),
                 Float(PyGet(browser.items, "name", None) \in {None, ""}),
                 Float(is_outdated_browser(browser.items)),
                 Float(has_suspicious_ua_pattern(ua))>>)

\* min(a, b).
Min2(a, b) == IF a < b THEN a ELSE b

\* _calculate_header_anomaly_score(headers).
calculate_header_anomaly_score(headers) ==
    LET missing == Cardinality({"accept", "accept-language", "accept-encoding"} \ DOMAIN headers)
        count == Cardinality(DOMAIN headers)
    IN  Min2(missing * 200
             + (IF PyGet(headers, "accept", None) = "*/*" THEN 100 ELSE 0)
             + (IF PyGet(headers, "accept-language", None) = "*" THEN 200 ELSE 0)
             + (IF count < 5 THEN 200 ELSE IF count > 20 THEN 100 ELSE 0),
             1000)

\* _extract_header_features(data).
extract_header_features(data) ==
    LET headers == PyGet(data, "headers", PyDict(EmptyDict)).items
    IN  Group("header",
          <<Cardinality(DOMAIN headers) * 1000,
            Float("accept-language" \in DOMAIN headers),
            Float("accept-encoding" \in DOMAIN headers),
            Float(Truthy(PyGet(data, "referer", PyNone))),
            Float(PyGet(headers, "dnt", None) = "1"),
            Float(DOMAIN headers \cap {"x-forwarded-for", "x-real-ip", "via", "forwarded"} # {}),
            calculate_header_anomaly_score(headers)>>)

\* _is_datacenter_ip(ip): the address starts with one of the prefixes '34.', '35.',
\* '52.', '54.', '13.', '18.'.  An address is held as its four octets ('' as <<>>).
is_datacenter_ip(ip) == ip # <<>> /\ ip[1] \in {34, 35, 52, 54, 13, 18}

\* country_allowed_by_user as _extract_geo_features computes it: True unless the
\* targeting is truthy, the country is truthy and a non-empty `countries` list does
\* not hold the country.
country_allowed_by_user(country, campaign_targeting) ==
    IF Truthy(campaign_targeting) /\ country \notin {None, ""}
    THEN LET targeted_countries == PyGet(campaign_targeting.items, "countries", <<>>)
         IN  IF targeted_countries # <<>>
             THEN country \in {targeted_countries[i] : i \in 1 .. Len(targeted_countries)}
             ELSE TRUE
    ELSE TRUE

\* _get_country_risk_score(country, allowed_by_user), in 1/1000.
get_country_risk_score(country, allowed_by_user) ==
    IF country \in {None, ""} THEN 500
    ELSE LET base_risk ==
                 IF country \in {"CN", "RU", "IN", "BR", "ID", "NG", "PK"} THEN 800
                 ELSE IF country \in {"TR", "VN", "PH", "BD", "EG", "IR"} THEN 600
                 ELSE 200
         IN  IF allowed_by_user /\ base_risk > 500 THEN (base_risk * 7) \div 10
             ELSE IF ~allowed_by_user THEN (IF base_risk > 700 THEN base_risk ELSE 700)
             ELSE base_risk

\* np.log1p(_estimate_city_population(city)): 1/1000 of log(1 + population), where the
\* population is that of the major city named in the lower-cased text, else 50000.
city_population_log(city) ==
    CASE Lower(city) = "new york" -> 15895
      [] Lower(city) = "chicago" -> 14809
      [] OTHER -> 10820

\* _extract_geo_features(data, campaign_targeting).
extract_geo_features(data, campaign_targeting) ==
    LET geo == PyGet(data, "geo", PyDict(EmptyDict))
        ip == PyGet(data, "ip", <<>>)
    IN  IF geo.type # "dict" THEN Raise("AttributeError")
        ELSE LET country == PyGet(geo.items, "country", None)
             IN  Group("geo",
               <<Float(is_datacenter_ip(ip)),
                 Float(~Truthy(geo)),
                 get_country_risk_score(country,
                                        country_allowed_by_user(country, campaign_targeting)),
                 city_population_log(PyGet(geo.items, "city", "")),
                 Float(FALSE)>>)

\* _get_browser_market_share(browser_name) and _get_os_market_share(os_name).
get_browser_market_share(browser_name) ==
    IF browser_name \in {None, ""} THEN 0
    ELSE CASE Lower(browser_name) = "chrome" -> 650
           [] Lower(browser_name) = "safari" -> 190
           [] Lower(browser_name) = "edge" -> 40
           [] Lower(browser_name) = "firefox" -> 30
           [] Lower(browser_name) = "opera" -> 20
           [] OTHER -> 10
get_os_market_share(os_name) ==
    IF os_name \in {None, ""} THEN 0
    ELSE CASE Lower(os_name) = "windows" -> 700
           [] Lower(os_name) = "mac os" -> 170
           [] Lower(os_name) = "linux" -> 20
           [] Lower(os_name) = "android" -> 410
           [] Lower(os_name) = "ios" -> 170
           [] OTHER -> 10

\* _check_device_browser_mismatch(device, browser, os).
check_device_browser_mismatch(device, browser, os) ==
    LET device_type == Lower(PyGet(device, "type", ""))
        browser_name == Lower(PyGet(browser, "name", ""))
        os_name == Lower(PyGet(os, "name", ""))
    IN  \/ (os_name = "ios" /\ browser_name \notin {"safari", "chrome"})
        \/ (device_type = "mobile" /\ os_name \in {"windows", "mac os", "linux"})

\* _extract_device_features(data, None).
extract_device_features(data) ==
    LET device == PyGet(data, "device", PyDict(EmptyDict))
        browser == PyGet(data, "browser", PyDict(EmptyDict))
        os == PyGet(data, "os", PyDict(EmptyDict))
    IN  IF device.type # "dict" \/ browser.type # "dict" \/ os.type # "dict"
        THEN Raise("AttributeError")
        ELSE LET device_type == Lower(PyGet(device.items, "type", "desktop"))
             IN  Group("device",
                   <<Float(device_type = "mobile"),
                     Float(device_type = "tablet"),
                     Float(device_type = "desktop"),
                     Float(device_type \notin {"mobile", "tablet", "desktop"}),
                     get_browser_market_share(PyGet(browser.items, "name", None)),
                     get_os_market_share(PyGet(os.items, "name", None)),
                     Float(check_device_browser_mismatch(device.items, browser.items,
                                                         os.items))>>)

\* _extract_behavioral_features(data): the hour and the weekday of datetime.utcnow(),
\* then three placeholders.
extract_behavioral_features(now) ==
    Group("behavioral", <<(now.hour * 1000) \div 24, (now.weekday * 1000) \div 7, 0, 0, 0>>)

\* _get_asn_type_score(ip) and _extract_network_features(data).
get_asn_type_score(ip) == IF is_datacenter_ip(ip) THEN 800 ELSE 200
extract_network_features(data) ==
    Group("network", <<500, get_asn_type_score(PyGet(data, "ip", <<>>)), 500, 500, 500>>)

\* _extract_headless_features(data): eight entries read from get_headless_features,
\* or eight zeros when it raises.
extract_headless_features(data) == Return(Block("headless", 8))

\* _extract_advanced_fingerprint_features(data): canvas, webgl, audio, screen and
\* hardware, environment, performance.
extract_advanced_fingerprint_features(data) ==
    Return(Block("advanced_fingerprint", 5) \o Block("advanced_fingerprint", 6)
           \o Block("advanced_fingerprint", 5) \o Block("advanced_fingerprint", 6)
           \o Block("advanced_fingerprint", 6) \o Block("advanced_fingerprint", 5))

\* _extract_behavioral_pattern_features(data): request patterns, HTTP
\* characteristics, IP and network analysis, TLS/TCP, time-based analysis.
extract_behavioral_pattern_features(data) ==
    Return(Block("behavioral_pattern", 5) \o Block("behavioral_pattern", 5)
           \o Block("behavioral_pattern", 6) \o Block("behavioral_pattern", 5)
           \o Block("behavioral_pattern", 5))

\* _extract_evasion_detection_features(data): five blocks of five.
extract_evasion_detection_features(data) ==
    Return(Block("evasion_detection", 5) \o Block("evasion_detection", 5)
           \o Block("evasion_detection", 5) \o Block("evasion_detection", 5)
           \o Block("evasion_detection", 5))

\* _extract_ml_analysis_features(data): content, session, evasion, and the eight
\* machine learning indicators.
extract_ml_analysis_features(data) ==
    Return(Block("ml_analysis", 5) \o Block("ml_analysis", 5) \o Block("ml_analysis", 5)
           \o Block("ml_analysis", 8))

\* features.extend(group) for each group in turn: the first group that raises ends
\* the call with its exception.
RECURSIVE ExtendAll(_)
ExtendAll(groups) ==
    IF groups = <<>> THEN Return(<<>>)
    ELSE IF Head(groups).raised # "none" THEN Head(groups)
    ELSE LET rest == ExtendAll(Tail(groups))
         IN  IF rest.raised # "none" THEN rest
             ELSE Return(Head(groups).vector \o rest.vector)

\* extract_features(visitor_data), campaign_targeting left at its default None: the
\* eleven groups, in this order.
extract_features(data, now) ==
    ExtendAll(<<extract_ua_features(data),
                extract_header_features(data),
                extract_geo_features(data, PyNone),
                extract_device_features(data),
                extract_behavioral_features(now),
                extract_network_features(data),
                extract_headless_features(data),
                extract_advanced_fingerprint_features(data),
                extract_behavioral_pattern_features(data),
                extract_evasion_detection_features(data),
                extract_ml_analysis_features(data)>>)

----------------------------------------------------------------------------
(* RuleBasedBotDetector. *)

\* RuleBasedBotDetector.feature_names.
detector_feature_names ==
    <<"ua_length", "ua_bot_keyword", "ua_crawler_keyword", "ua_missing_browser",
      "ua_outdated_browser", "ua_suspicious_pattern", "header_count",
      "has_accept_language", "has_accept_encoding", "has_referer", "has_dnt",
      "has_proxy_headers", "header_anomaly_score", "is_datacenter_ip", "geo_missing",
      "country_risk_score", "city_population_log", "timezone_mismatch", "is_mobile",
      "is_tablet", "is_desktop", "is_unknown_device", "browser_market_share",
      "os_market_share", "device_browser_mismatch", "request_hour",
      "request_day_of_week", "session_duration", "page_views_per_minute",
      "click_pattern_score", "ip_reputation_score", "asn_type_score",
      "connection_type_score", "tls_fingerprint_common", "tcp_fingerprint_match">>

\* max(a, b).
Max2(a, b) == IF a > b THEN a ELSE b

\* dict(zip(names, features)): the names paired with the leading entries' values.
Zip(names, features) ==
    LET n == Min2(Len(names), Len(features))
    IN  [k \in {names[i] : i \in 1 .. n} |->
            features[CHOOSE i \in 1 .. n : names[i] = k /\ \A j \in (i + 1) .. n : names[j] # k].value]

\* _calculate_bot_score(features): the five weighted rules.  The features are float32
\* and the thresholds Python floats: float32(0.01) < 0.01 is True where the comparison
\* is made in double precision (NumPy 1 value-based promotion) and False where the
\* threshold is converted to float32 (NumPy 2), so share_below ranges over both.
calculate_bot_score(features, share_below) ==
    LET feature_dict == Zip(detector_feature_names, features)
        get(k, default) == PyGet(feature_dict, k, default)
        ua_length == get("ua_length", 100000)
        ua_score ==
            Min2((IF get("ua_bot_keyword", 0) > 500 THEN 800 ELSE 0)
                 + (IF get("ua_crawler_keyword", 0) > 500 THEN 900 ELSE 0)
                 + (IF get("ua_suspicious_pattern", 0) > 500 THEN 700 ELSE 0)
                 + (IF get("ua_missing_browser", 0) > 500 THEN 500 ELSE 0)
                 + (IF get("ua_outdated_browser", 0) > 500 THEN 600 ELSE 0)
                 + (IF ua_length < 20000 THEN 600 ELSE IF ua_length > 500000 THEN 400 ELSE 0),
                 1000)
        header_count == get("header_count", 10000)
        header_score ==
            Min2((get("header_anomaly_score", 0) * 12) \div 10
                 + (IF get("has_accept_language", 0) < 500 THEN 400 ELSE 0)
                 + (IF get("has_accept_encoding", 0) < 500 THEN 300 ELSE 0)
                 + (IF get("has_referer", 0) < 500 THEN 200 ELSE 0)
                 + (IF get("has_proxy_headers", 0) > 500 THEN 500 ELSE 0)
                 + (IF header_count < 5000 THEN 400 ELSE IF header_count > 25000 THEN 200 ELSE 0),
                 1000)
        geo_score ==
            Min2((IF get("is_datacenter_ip", 0) > 500 THEN 800 ELSE 0)
                 + (get("country_risk_score", 200) * 8) \div 10
                 + (IF get("geo_missing", 0) > 500 THEN 300 ELSE 0),
                 1000)
        browser_share == get("browser_market_share", 500)
        device_score ==
            Min2((IF get("device_browser_mismatch", 0) > 500 THEN 600 ELSE 0)
                 + (IF get("is_unknown_device", 0) > 500 THEN 400 ELSE 0)
                 + (IF browser_share < 10 \/ (browser_share = 10 /\ share_below)
                    THEN 500 ELSE 0),
                 1000)
        network_score ==
            Min2(get("asn_type_score", 200) \div 2
                 + (IF get("ip_reputation_score", 500) > 700 THEN 600 ELSE 0),
                 1000)
        score == ua_score * 300 + header_score * 250 + geo_score * 200
                 + device_score * 150 + network_score * 100
    IN  Max2(0, Min2(1000000, score))

\* ModelManager.predict(features) with the rule-based classifier active:
\* bot_probability = predict_proba(features)[0][1] is the bot score, and
\* is_bot = bot_probability > 0.5.
predict_rule_based(features, share_below) ==
    LET bot_probability == calculate_bot_score(features, share_below)
    IN  [called |-> TRUE, is_bot |-> bot_probability > 500000, confidence |-> bot_probability]

----------------------------------------------------------------------------
(* One visitor signal through extract_features and the rule-based classifier *)
(* that initialize() installs on an empty store.                             *)

\* The user agents of the "Python Bot" and "Chrome Desktop User" scenarios, and a
\* short crawler user agent.  "Chrome/119.0.0.0" matches the dotted-quad pattern.
PythonRequestsUA == UserAgent("python-requests/2.28.1", 22, {"python"})
ChromeDesktopUA ==
    UserAgent("Mozilla/5.0 (Windows NT 10.0; Win64; x64) AppleWebKit/537.36 (KHTML, like Gecko) Chrome/119.0.0.0 Safari/537.36",
              111, {"dotted_quad"})
UserAgents ==
    {PythonRequestsUA, ChromeDesktopUA, UserAgent("Googlebot/2.1", 13, {"bot", "googlebot"})}

\* The headers of the same two scenarios.
MinimalHeaders ==
    [h \in {"accept", "user-agent"} |-> IF h = "accept" THEN "*/*" ELSE "python-requests/2.28.1"]
CompleteHeaders ==
    [h \in {"accept", "accept-language", "accept-encoding", "referer", "user-agent"} |->
        CASE h = "accept" -> "text/html,application/xhtml+xml"
          [] h = "accept-language" -> "en-US,en;q=0.9"
          [] h = "accept-encoding" -> "gzip, deflate, br"
          [] h = "referer" -> "https://google.com/"
          [] h = "user-agent" -> "Mozilla/5.0"]
HeaderSets == {MinimalHeaders, CompleteHeaders}

\* An ISP address and an address in a datacenter range.
Addresses == {<<203, 0, 113, 45>>, <<54, 239, 123, 45>>}

\* An optional field: left out of the visitor dict, None (what VisitorData.dict()
\* gives for a field the request omitted), or a dict.
Absent == [type |-> "absent"]
OptionalValues ==
    [geo |-> {Absent, PyNone, PyDict(EmptyDict),
              PyDict([k \in {"country", "city"} |-> IF k = "country" THEN "US" ELSE "Chicago"])},
     device |-> {Absent, PyNone, PyDict([k \in {"type"} |-> "desktop"]),
                 PyDict([k \in {"type"} |-> "mobile"])},
     browser |-> {Absent, PyNone,
                  PyDict([k \in {"name", "version"} |-> IF k = "name" THEN "Chrome" ELSE "119.0"]),
                  PyDict([k \in {"name", "version"} |-> "unknown"])},
     os |-> {Absent, PyNone, PyDict([k \in {"name"} |-> "windows"]),
             PyDict([k \in {"name"} |-> "unknown"])},
     referer |-> {Absent, PyNone, PyStr("https://google.com/")}]

OptionalFields == DOMAIN OptionalValues
\* The visitor dict with the given fields, the absent optional ones left out.
VisitorDict(fields) ==
    [k \in {"ip", "userAgent", "headers"}
           \cup {o \in OptionalFields : fields[o].type # "absent"} |-> fields[k]]

VisitorSignals ==
    {VisitorDict([ip |-> ip, userAgent |-> ua, headers |-> PyDict(headers), geo |-> geo,
                  device |-> device, browser |-> browser, os |-> os, referer |-> referer]) :
        ip \in Addresses, ua \in UserAgents, headers \in HeaderSets,
        geo \in OptionalValues.geo, device \in OptionalValues.device,
        browser \in OptionalValues.browser, os \in OptionalValues.os,
        referer \in OptionalValues.referer}

\* datetime.utcnow() as the behavioural group reads it.
Clocks == {[hour |-> 2, weekday |-> 0], [hour |-> 23, weekday |-> 6]}

ClassifyFrame ==
    UNCHANGED <<phase, store_vars, manager_vars, training_vars, saves, faults, predict_vars,
                registry_history_vars, deploy_vars, function_vars, declined>>

\* features = self.feature_extractor.extract_features(visitor_data)
ExtractFeatures ==
    /\ phase = "serving"
    /\ extracted = NoExtraction
    /\ \E now \in Clocks : extracted' = extract_features(signal, now)
    /\ UNCHANGED <<signal, verdict>>
    /\ ClassifyFrame

\* is_bot, confidence = self.model_manager.predict(features)
RuleBasedClassify ==
    /\ extracted.raised = "none"
    /\ current_model = RuleBasedModel
    /\ ~verdict.called
    /\ \E share_below \in BOOLEAN :
           verdict' = predict_rule_based(extracted.vector, share_below)
    /\ UNCHANGED <<signal, extracted>>
    /\ ClassifyFrame

ClassifyInit ==
    /\ model_files = EmptyStore.mfiles
    /\ metadata_files = EmptyStore.metafiles
    /\ InitProcess
    /\ InitHistory
    /\ signal \in VisitorSignals
    /\ extracted = NoExtraction
    /\ verdict = NoVerdict
    /\ NoFunctionCalled

ClassifyNext == Initialize \/ ExtractFeatures \/ RuleBasedClassify

ClassifySpec == ClassifyInit /\ [][ClassifyNext]_vars

----------------------------------------------------------------------------
(* ModelTrainer.prepare_training_data as a function of the labels: sample i  *)
(* is row i of X and labels_list[i] its label (0 human, 1 bot).              *)

\* The longest labels_list tried.
MaxSamples == 6

\* np.where(y == label)[0]: the positions of the samples with that label, ascending.
Where(y, label) == SelectSeq([i \in 1 .. Len(y) |-> i], LAMBDA i : y[i] = label)

\* The values a sequence holds.
Range(seq) == {seq[i] : i \in 1 .. Len(seq)}

\* np.unique(y, return_counts=True): the distinct labels ascending and their counts.
unique_counts(y) ==
    LET values == SelectSeq(<<0, 1>>, LAMBDA label : label \in Range(y))
    IN  [unique |-> values,
         counts |-> [k \in 1 .. Len(values) |-> Len(Where(y, values[k]))]]

\* What np.random.choice(a, size, replace=False) can return: every arrangement of
\* size different elements of a.
RandomChoices(a, size) ==
    {c \in [1 .. size -> Range(a)] : \A i, j \in 1 .. size : i # j => c[i] # c[j]}

\* prepare_training_data(features_list, labels_list): the rows of X (as positions in
\* features_list) and y returned.  The ratio test human_count / bot_count > 3 is a
\* true division of two positive integers.
prepare_training_data(labels, sampled) ==
    LET c == unique_counts(labels)
        all == [i \in 1 .. Len(labels) |-> i]
    IN  IF Len(c.unique) = 2 /\ c.counts[2] > 0 /\ c.counts[1] > 3 * c.counts[2]
        THEN LET indices == sampled \o Where(labels, 1)
             IN  [called |-> TRUE, X |-> indices,
                  y |-> [k \in 1 .. Len(indices) |-> labels[indices[k]]]]
        ELSE [called |-> TRUE, X |-> all, y |-> labels]

\* n_human_samples = min(len(human_indices), len(bot_indices) * 3)
n_human_samples(labels) ==
    Min2(Len(Where(labels, 0)), Len(Where(labels, 1)) * 3)

\* The labels_list values tried: every list of 1 to MaxSamples labels.
LabelLists == UNION {[1 .. n -> {0, 1}] : n \in 1 .. MaxSamples}

BalanceFrame ==
    UNCHANGED <<phase, store_vars, manager_vars, training_vars, saves, faults, predict_vars,
                registry_history_vars, deploy_vars, extract_vars, targeted, geo_features,
                detect_input, detection, declined>>

\* X, y = self.trainer.prepare_training_data(features_list, labels_list)
PrepareTrainingData ==
    /\ ~prepared.called
    /\ \E sampled \in RandomChoices(Where(labels_list, 0), n_human_samples(labels_list)) :
           prepared' = prepare_training_data(labels_list, sampled)
    /\ UNCHANGED labels_list
    /\ BalanceFrame

BalanceInit ==
    /\ model_files = EmptyStore.mfiles
    /\ metadata_files = EmptyStore.metafiles
    /\ InitProcess
    /\ InitHistory
    /\ NoRequestYet
    /\ labels_list \in LabelLists
    /\ prepared = NotPrepared
    /\ NoGeoCall
    /\ NoDetection

BalanceSpec == BalanceInit /\ [][PrepareTrainingData]_vars

----------------------------------------------------------------------------
(* FeatureExtractor._extract_geo_features as a function of the visitor's    *)
(* geo data and the campaign targeting.                                     *)

\* The countries of the visitors: one of each risk class, and none.
VisitorCountries == {"US", "CN", "TR", None}

\* The campaign targeting: None, {}, a dict without `countries`, and dicts whose
\* `countries` is the empty list, a list of one or of two countries.
Targetings ==
    {PyNone, PyDict(EmptyDict), PyDict([k \in {"campaignId"} |-> "c-1"])}
    \cup {PyDict([k \in {"countries"} |-> countries]) :
              countries \in {<<>>, <<"US">>, <<"CN">>, <<"DE">>, <<"CN", "TR">>, <<"US", "TR">>}}

\* The calls _extract_geo_features(data, campaign_targeting) tried.
TargetedCalls ==
    {[data |-> [k \in {"ip", "geo"} |->
                   IF k = "ip" THEN ip
                   ELSE PyDict(IF country = None THEN [f \in {"city"} |-> "Chicago"]
                               ELSE [f \in {"country", "city"} |->
                                        IF f = "country" THEN country ELSE "Chicago"])],
      campaign_targeting |-> t] :
        ip \in Addresses, country \in VisitorCountries, t \in Targetings}

\* features.extend(self._extract_geo_features(visitor_data, campaign_targeting))
ExtractGeoFeatures ==
    /\ geo_features = NoExtraction
    /\ geo_features' = extract_geo_features(targeted.data, targeted.campaign_targeting)
    /\ UNCHANGED <<phase, store_vars, manager_vars, training_vars, saves, faults, predict_vars,
                   registry_history_vars, deploy_vars, extract_vars, labels_list, prepared,
                   targeted, detect_input, detection, declined>>

TargetingInit ==
    /\ model_files = EmptyStore.mfiles
    /\ metadata_files = EmptyStore.metafiles
    /\ InitProcess
    /\ InitHistory
    /\ NoRequestYet
    /\ NoBalancing
    /\ targeted \in TargetedCalls
    /\ geo_features = NoExtraction
    /\ NoDetection

TargetingSpec == TargetingInit /\ [][ExtractGeoFeatures]_vars

----------------------------------------------------------------------------
(* HeadlessBrowserDetector.detect as a function of the visitor info.  A text *)
(* that the detector searches is held as its sequence of characters, so that *)
(* `keyword in text`, text.count and the regular expressions are computed on *)
(* the text itself.  The detections and features lists of the result, which  *)
(* nothing reads back, are left out.                                         *)

\* sub in text (Python `in` on str).
Contains(text, sub) ==
    \E i \in 1 .. (Len(text) - Len(sub) + 1) : SubSeq(text, i, i + Len(sub) - 1) = sub

\* text.count(ch) for a single character.
CountChar(text, ch) == Cardinality({i \in 1 .. Len(text) : text[i] = ch})

\* text.lower().
LowerChar ==
    [c \in {"A", "B", "C", "D", "E", "F", "G", "H", "I", "J", "K", "L", "M", "N", "O", "P", "Q",
            "R", "S", "T", "U", "V", "W", "X", "Y", "Z"} |->
        CASE c = "A" -> "a" [] c = "B" -> "b" [] c = "C" -> "c" [] c = "D" -> "d"
          [] c = "E" -> "e" [] c = "F" -> "f" [] c = "G" -> "g" [] c = "H" -> "h"
          [] c = "I" -> "i" [] c = "J" -> "j" [] c = "K" -> "k" [] c = "L" -> "l"
          [] c = "M" -> "m" [] c = "N" -> "n" [] c = "O" -> "o" [] c = "P" -> "p"
          [] c = "Q" -> "q" [] c = "R" -> "r" [] c = "S" -> "s" [] c = "T" -> "t"
          [] c = "U" -> "u" [] c = "V" -> "v" [] c = "W" -> "w" [] c = "X" -> "x"
          [] c = "Y" -> "y" [] c = "Z" -> "z"]
LowerText(text) ==
    [i \in 1 .. Len(text) |-> IF text[i] \in DOMAIN LowerChar THEN LowerChar[text[i]] ELSE text[i]]

\* The index after the longest run of digits (\d+, greedy) that starts at index i;
\* i itself when text[i] is not a digit.
RECURSIVE DigitsEnd(_, _)
DigitsEnd(text, i) ==
    IF i <= Len(text) /\ text[i] \in {"0", "1", "2", "3", "4", "5", "6", "7", "8", "9"}
    THEN DigitsEnd(text, i + 1)
    ELSE i

\* The index after a match of (\d+)\.(\d+)\.(\d+)\.(\d+) that starts at index i, or 0.
\* After a greedy run of digits only a dot can follow, so no shorter run matches.
VersionEnd(text, i) ==
    LET e1 == DigitsEnd(text, i)
        e2 == DigitsEnd(text, e1 + 1)
        e3 == DigitsEnd(text, e2 + 1)
        e4 == DigitsEnd(text, e3 + 1)
        dot(e) == e <= Len(text) /\ text[e] = "."
    IN  IF /\ e1 > i /\ dot(e1)
           /\ e2 > e1 + 1 /\ dot(e2)
           /\ e3 > e2 + 1 /\ dot(e3)
           /\ e4 > e3 + 1
        THEN e4 ELSE 0

\* re.search(r'Chrome/(\d+)\.(\d+)\.(\d+)\.(\d+)', user_agent): the four groups joined
\* by dots (full_version) of the leftmost match, or the empty text without a match.
chrome_full_version(user_agent) ==
    LET prefix == <<"C", "h", "r", "o", "m", "e", "/">>
        starts == {i \in 1 .. Len(user_agent) :
                      /\ i + Len(prefix) - 1 <= Len(user_agent)
                      /\ SubSeq(user_agent, i, i + Len(prefix) - 1) = prefix
                      /\ VersionEnd(user_agent, i + Len(prefix)) # 0}
    IN  IF starts = {} THEN <<>>
        ELSE LET first == CHOOSE i \in starts : \A j \in starts : i <= j
             IN  SubSeq(user_agent, first + Len(prefix),
                        VersionEnd(user_agent, first + Len(prefix)) - 1)

\* headless_keywords without 'Headless' (not the list of the code).
headless_keywords_without_Headless ==
    <<<<"H", "e", "a", "d", "l", "e", "s", "s", "C", "h", "r", "o", "m", "e">>, <<"P", "h", "a", "n", "t", "o", "m", "J", "S">>,
      <<"S", "l", "i", "m", "e", "r", "J", "S">>, <<"H", "t", "m", "l", "U", "n", "i", "t">>,
      <<"h", "e", "a", "d", "l", "e", "s", "s">>,
      <<"a", "u", "t", "o", "m", "a", "t", "i", "o", "n">>,
      <<"w", "e", "b", "d", "r", "i", "v", "e", "r">>>>

\* headless_keywords of _analyze_user_agent.
headless_keywords ==
    <<<<"H", "e", "a", "d", "l", "e", "s", "s", "C", "h", "r", "o", "m", "e">>, <<"P", "h", "a", "n", "t", "o", "m", "J", "S">>,
      <<"S", "l", "i", "m", "e", "r", "J", "S">>, <<"H", "t", "m", "l", "U", "n", "i", "t">>,
      <<"H", "e", "a", "d", "l", "e", "s", "s">>,
      <<"h", "e", "a", "d", "l", "e", "s", "s">>,
      <<"a", "u", "t", "o", "m", "a", "t", "i", "o", "n">>,
      <<"w", "e", "b", "d", "r", "i", "v", "e", "r">>>>

\* automation_versions of _analyze_user_agent.
automation_versions ==
    {<<"8", "8", ".", "0", ".", "4", "3", "2", "4", ".", "1", "5", "0">>,
     <<"9", "1", ".", "0", ".", "4", "4", "7", "2", ".", "1", "2", "4">>,
     <<"9", "2", ".", "0", ".", "4", "5", "1", "5", ".", "1", "0", "7">>}

\* The platform names one of which a user agent is expected to hold.
platforms ==
    {<<"W", "i", "n", "d", "o", "w", "s">>, <<"M", "a", "c", "i", "n", "t", "o", "s", "h">>,
     <<"L", "i", "n", "u", "x">>, <<"X", "1", "1">>}

\* _analyze_user_agent(user_agent): its score and the framework it names.  Every
\* branch that adds to the score also sets is_suspicious.
analyze_user_agent(user_agent) ==
    IF user_agent = <<>>
    THEN [score |-> 20, framework |-> "unknown"]
    ELSE LET found == {k \in 1 .. Len(headless_keywords) :
                          Contains(user_agent, headless_keywords[k])}
             named == IF found = {} THEN "unknown"
                      ELSE IF Contains(user_agent, <<"H", "e", "a", "d", "l", "e", "s", "s">>)
                      THEN "chrome_headless"
                      ELSE IF Contains(user_agent, <<"P", "h", "a", "n", "t", "o", "m", "J", "S">>)
                      THEN "phantomjs"
                      ELSE "unknown"
             automation == /\ Contains(user_agent, <<"C", "h", "r", "o", "m", "e">>)
                           /\ named = "unknown"
                           /\ chrome_full_version(user_agent) \in automation_versions
         IN  [score |-> 30 * Cardinality(found)
                        + (IF automation THEN 25 ELSE 0)
                        + (IF \A platform \in platforms : ~Contains(user_agent, platform)
                           THEN 15 ELSE 0)
                        + (IF CountChar(user_agent, "(") # CountChar(user_agent, ")")
                           THEN 10 ELSE 0)
                        + (IF Len(user_agent) < 50 THEN 10
                           ELSE IF Len(user_agent) > 500 THEN 5 ELSE 0),
              framework |-> IF automation THEN "puppeteer" ELSE named]

\* The headers the automation check counts.
automation_headers ==
    {<<"x", "-", "c", "h", "r", "o", "m", "e", "-", "c", "o", "n", "n", "e", "c", "t", "e", "d">>,
     <<"x", "-", "d", "e", "v", "t", "o", "o", "l", "s", "-", "e", "m", "u", "l", "a", "t", "e",
       "-", "n", "e", "t", "w", "o", "r", "k", "-", "c", "o", "n", "d", "i", "t", "i", "o", "n",
       "s", "-", "c", "l", "i", "e", "n", "t", "-", "i", "d">>,
     <<"s", "e", "c", "-", "c", "h", "-", "u", "a", "-", "m", "o", "b", "i", "l", "e">>,
     <<"s", "e", "c", "-", "f", "e", "t", "c", "h", "-", "d", "e", "s", "t">>,
     <<"s", "e", "c", "-", "f", "e", "t", "c", "h", "-", "m", "o", "d", "e">>,
     <<"s", "e", "c", "-", "f", "e", "t", "c", "h", "-", "s", "i", "t", "e">>}

\* The header names every browser is expected to send.
expected_headers ==
    {<<"a", "c", "c", "e", "p", "t">>,
     <<"a", "c", "c", "e", "p", "t", "-", "l", "a", "n", "g", "u", "a", "g", "e">>,
     <<"a", "c", "c", "e", "p", "t", "-", "e", "n", "c", "o", "d", "i", "n", "g">>}

\* _analyze_headers(headers): its score.
analyze_headers(headers) ==
    LET names == {LowerText(k) : k \in DOMAIN headers}
        headers_lower == [n \in names |-> headers[CHOOSE k \in DOMAIN headers : LowerText(k) = n]]
        get(n) == IF n \in names THEN headers_lower[n] ELSE <<>>
        missing_headers == expected_headers \ names
        accept_language == <<"a", "c", "c", "e", "p", "t", "-", "l", "a", "n", "g", "u", "a",
                             "g", "e">>
        connection == <<"c", "o", "n", "n", "e", "c", "t", "i", "o", "n">>
        automation_count == Cardinality(automation_headers \cap names)
    IN  10 * Cardinality(missing_headers)
        + (IF accept_language \in names
              /\ headers_lower[accept_language] \in {<<"e", "n", "-", "U", "S">>, <<"*">>}
           THEN 10 ELSE 0)
        + (IF automation_count > 8 THEN 15
           ELSE IF automation_count = 0
                   /\ Contains(LowerText(get(<<"u", "s", "e", "r", "-", "a", "g", "e", "n", "t">>)),
                               <<"c", "h", "r", "o", "m", "e">>)
           THEN 10 ELSE 0)
        + (IF connection \in names
              /\ LowerText(headers_lower[connection])
                     \notin {<<"k", "e", "e", "p", "-", "a", "l", "i", "v", "e">>,
                             <<"c", "l", "o", "s", "e">>}
           THEN 5 ELSE 0)

\* suspicious_vendors of _analyze_advanced_fingerprint.
suspicious_vendors ==
    {<<"B", "r", "i", "a", "n", " ", "P", "a", "u", "l">>,
     <<"M", "e", "s", "a", " ", "P", "r", "o", "j", "e", "c", "t">>,
     <<"V", "M", "w", "a", "r", "e", ",", " ", "I", "n", "c", ".">>,
     <<"S", "w", "i", "f", "t", "S", "h", "a", "d", "e", "r">>}

\* _analyze_advanced_fingerprint(fingerprint): its score.  The fingerprint is a dict
\* of dicts, each held as a function from the keys present.
analyze_advanced_fingerprint(fingerprint) ==
    LET has(part) == part \in DOMAIN fingerprint
        canvas == fingerprint.canvas
        webgl == fingerprint.webgl
        screen == fingerprint.screen
        device == fingerprint.device
        env == fingerprint.environment
    IN  (IF has("canvas") /\ "hash" \in DOMAIN canvas
            /\ canvas.hash \in {"da39a3ee5e6b4b0d3255bfef95601890afd80709",
                                "e3b0c44298fc1c149afbf4c8996fb92427ae41e4"}
         THEN 25 ELSE 0)
        + (IF has("canvas") /\ "text" \in DOMAIN canvas
              /\ canvas.text = PyGet(canvas, "geometry", "")
           THEN 15 ELSE 0)
        + (IF has("webgl") /\ "vendor" \in DOMAIN webgl
           THEN 20 * Cardinality({v \in suspicious_vendors : Contains(webgl.vendor, v)})
           ELSE 0)
        + (IF has("webgl") /\ "renderer" \in DOMAIN webgl
              /\ (\/ Contains(webgl.renderer, <<"S", "w", "i", "f", "t", "S", "h", "a", "d", "e",
                                              "r">>)
                  \/ Contains(webgl.renderer, <<"M", "e", "s", "a", " ", "O", "f", "f", "S", "c",
                                              "r", "e", "e", "n">>))
           THEN 20 ELSE 0)
        + (IF has("screen") /\ "pixelRatio" \in DOMAIN screen /\ screen.pixelRatio = 1
           THEN 5 ELSE 0)
        + (IF has("device") /\ "hardwareConcurrency" \in DOMAIN device
              /\ (device.hardwareConcurrency > 16 \/ device.hardwareConcurrency = 1)
           THEN 10 ELSE 0)
        + (IF has("device") /\ "deviceMemory" \notin DOMAIN device THEN 5 ELSE 0)
        + (IF has("environment") /\ "plugins" \in DOMAIN env
           THEN (IF Len(env.plugins) = 0 THEN 15
                 ELSE IF Len(env.plugins) < 3 THEN 10 ELSE 0)
           ELSE 0)
        + (IF has("environment") /\ "languages" \in DOMAIN env
              /\ env.languages = <<"en-US">>
           THEN 10 ELSE 0)
        + (IF has("environment") /\ "timezone" \in DOMAIN env /\ env.timezone = "UTC"
           THEN 10 ELSE 0)

\* re.match(r'^\d+\.0\.0\.0$', version).
is_zero_padded_version(version) ==
    LET e == DigitsEnd(version, 1)
    IN  e > 1 /\ SubSeq(version, e, Len(version)) = <<".", "0", ".", "0", ".", "0">>

\* _analyze_browser_environment(visitor_info): its score.
analyze_browser_environment(visitor_info) ==
    LET browser == PyGet(visitor_info, "browser", EmptyDict)
        os == PyGet(visitor_info, "os", EmptyDict)
    IN  IF DOMAIN browser # {} /\ DOMAIN os # {} /\ "version" \in DOMAIN browser
           /\ is_zero_padded_version(browser.version)
        THEN 15 ELSE 0

\* hosting_patterns of _is_hosting_ip, each a literal prefix: ^172\.16\., ^10\., ^192\.168\.
hosting_patterns ==
    {<<"1", "7", "2", ".", "1", "6", ".">>,
     <<"1", "0", ".">>,
     <<"1", "9", "2", ".", "1", "6", "8", ".">>}

\* _is_hosting_ip(ip): re.match of one of the patterns at the start of the address.
is_hosting_ip(ip) ==
    \E pattern \in hosting_patterns :
        Len(ip) >= Len(pattern) /\ SubSeq(ip, 1, Len(pattern)) = pattern

\* _analyze_behavioral_patterns(visitor_info): its score.
analyze_behavioral_patterns(visitor_info) ==
    IF is_hosting_ip(PyGet(visitor_info, "ip", <<>>)) THEN 20 ELSE 0

\* detect(visitor_info): the HeadlessDetectionResult, confidence in 1/100.
detect(visitor_info) ==
    LET ua_result == analyze_user_agent(PyGet(visitor_info, "userAgent", <<>>))
        risk_score ==
            ua_result.score
            + analyze_headers(PyGet(visitor_info, "headers", EmptyDict))
            + (IF "advancedFingerprint" \in DOMAIN visitor_info
               THEN analyze_advanced_fingerprint(visitor_info.advancedFingerprint)
               ELSE 0)
            + analyze_browser_environment(visitor_info)
            + analyze_behavioral_patterns(visitor_info)
    IN  [called |-> TRUE,
         is_headless |-> risk_score >= 60,
         confidence |-> Min2(risk_score, 100),
         framework |-> ua_result.framework,
         risk_score |-> risk_score]

\* 'Mozilla/5.0 (Macintosh; Intel Mac OS X 10_15_7) AppleWebKit/537.36 (KHTML, like
\* Gecko) Chrome/91.0.4472.124 Safari/537.36'
NormalChromeUserAgent ==
    <<"M", "o", "z", "i", "l", "l", "a", "/", "5", ".", "0", " ", "(", "M", "a", "c", "i", "n",
      "t", "o", "s", "h", ";", " ", "I", "n", "t", "e", "l", " ", "M", "a", "c", " ", "O", "S",
      " ", "X", " ", "1", "0", "_", "1", "5", "_", "7", ")", " ", "A", "p", "p", "l", "e", "W",
      "e", "b", "K", "i", "t", "/", "5", "3", "7", ".", "3", "6", " ", "(", "K", "H", "T", "M",
      "L", ",", " ", "l", "i", "k", "e", " ", "G", "e", "c", "k", "o", ")", " ", "C", "h", "r",
      "o", "m", "e", "/", "9", "1", ".", "0", ".", "4", "4", "7", "2", ".", "1", "2", "4", " ",
      "S", "a", "f", "a", "r", "i", "/", "5", "3", "7", ".", "3", "6">>
\* 'Mozilla/5.0 (X11; Linux x86_64) AppleWebKit/537.36 (KHTML, like Gecko)
\* HeadlessChrome/91.0.4472.124 Safari/537.36'
HeadlessChromeUserAgent ==
    <<"M", "o", "z", "i", "l", "l", "a", "/", "5", ".", "0", " ", "(", "X", "1", "1", ";", " ",
      "L", "i", "n", "u", "x", " ", "x", "8", "6", "_", "6", "4", ")", " ", "A", "p", "p", "l",
      "e", "W", "e", "b", "K", "i", "t", "/", "5", "3", "7", ".", "3", "6", " ", "(", "K", "H",
      "T", "M", "L", ",", " ", "l", "i", "k", "e", " ", "G", "e", "c", "k", "o", ")", " ", "H",
      "e", "a", "d", "l", "e", "s", "s", "C", "h", "r", "o", "m", "e", "/", "9", "1", ".", "0",
      ".", "4", "4", "7", "2", ".", "1", "2", "4", " ", "S", "a", "f", "a", "r", "i", "/", "5",
      "3", "7", ".", "3", "6">>
\* 'Mozilla/5.0 (Unknown; Linux x86_64) AppleWebKit/534.34 (KHTML, like Gecko)
\* PhantomJS/1.9.8 Safari/534.34'
PhantomJSUserAgent ==
    <<"M", "o", "z", "i", "l", "l", "a", "/", "5", ".", "0", " ", "(", "U", "n", "k", "n", "o",
      "w", "n", ";", " ", "L", "i", "n", "u", "x", " ", "x", "8", "6", "_", "6", "4", ")", " ",
      "A", "p", "p", "l", "e", "W", "e", "b", "K", "i", "t", "/", "5", "3", "4", ".", "3", "4",
      " ", "(", "K", "H", "T", "M", "L", ",", " ", "l", "i", "k", "e", " ", "G", "e", "c", "k",
      "o", ")", " ", "P", "h", "a", "n", "t", "o", "m", "J", "S", "/", "1", ".", "9", ".", "8",
      " ", "S", "a", "f", "a", "r", "i", "/", "5", "3", "4", ".", "3", "4">>
\* 'Mozilla/5.0 (Windows NT 10.0; Win64; x64) AppleWebKit/537.36 (KHTML, like Gecko)
\* Chrome/119.0.0.0 Safari/537.36'
Chrome119UserAgent ==
    <<"M", "o", "z", "i", "l", "l", "a", "/", "5", ".", "0", " ", "(", "W", "i", "n", "d", "o",
      "w", "s", " ", "N", "T", " ", "1", "0", ".", "0", ";", " ", "W", "i", "n", "6", "4", ";",
      " ", "x", "6", "4", ")", " ", "A", "p", "p", "l", "e", "W", "e", "b", "K", "i", "t", "/",
      "5", "3", "7", ".", "3", "6", " ", "(", "K", "H", "T", "M", "L", ",", " ", "l", "i", "k",
      "e", " ", "G", "e", "c", "k", "o", ")", " ", "C", "h", "r", "o", "m", "e", "/", "1", "1",
      "9", ".", "0", ".", "0", ".", "0", " ", "S", "a", "f", "a", "r", "i", "/", "5", "3", "7",
      ".", "3", "6">>

\* The user agents tried: those of test_headless_detection, a current desktop Chrome,
\* the bare text 'HeadlessChrome', an HTTP library, an unbalanced text naming
\* webdriver, and the empty text.
HeadlessUserAgents ==
    {NormalChromeUserAgent, HeadlessChromeUserAgent, PhantomJSUserAgent, Chrome119UserAgent,
     <<"H", "e", "a", "d", "l", "e", "s", "s", "C", "h", "r", "o", "m", "e">>,
     <<"p", "y", "t", "h", "o", "n", "-", "r", "e", "q", "u", "e", "s", "t", "s", "/", "2", ".",
       "2", "8", ".", "1">>,
     <<"w", "e", "b", "d", "r", "i", "v", "e", "r", " ", "(", "X", "1", "1">>,
     <<>>}

\* The header dicts tried: the browser's three headers, with and without the header
\* names capitalised and a user-agent header; the single accept header of the
\* headless scenarios; and a sparse set with a default language and an upgrade.
HeadlessHeaderSets ==
    LET accept == <<"t", "e", "x", "t", "/", "h", "t", "m", "l", ",", "a", "p", "p", "l", "i",
                    "c", "a", "t", "i", "o", "n", "/", "x", "h", "t", "m", "l", "+", "x", "m",
                    "l">>
        language == <<"e", "n", "-", "U", "S", ",", "e", "n", ";", "q", "=", "0", ".", "5">>
        encoding == <<"g", "z", "i", "p", ",", " ", "d", "e", "f", "l", "a", "t", "e">>
    IN  {[k \in expected_headers |->
             IF k = <<"a", "c", "c", "e", "p", "t">> THEN accept
             ELSE IF k = <<"a", "c", "c", "e", "p", "t", "-", "l", "a", "n", "g", "u", "a", "g",
                          "e">>
             THEN language ELSE encoding],
         [k \in {<<"A", "c", "c", "e", "p", "t">>,
                 <<"A", "c", "c", "e", "p", "t", "-", "L", "a", "n", "g", "u", "a", "g", "e">>,
                 <<"A", "c", "c", "e", "p", "t", "-", "E", "n", "c", "o", "d", "i", "n", "g">>,
                 <<"U", "s", "e", "r", "-", "A", "g", "e", "n", "t">>} |->
             IF k = <<"A", "c", "c", "e", "p", "t">> THEN accept
             ELSE IF k = <<"A", "c", "c", "e", "p", "t", "-", "L", "a", "n", "g", "u", "a", "g",
                          "e">>
             THEN language
             ELSE IF k = <<"A", "c", "c", "e", "p", "t", "-", "E", "n", "c", "o", "d", "i", "n",
                          "g">>
             THEN encoding
             ELSE <<"M", "o", "z", "i", "l", "l", "a", "/", "5", ".", "0", " ", "C", "h", "r",
                    "o", "m", "e", "/", "1", "1", "9", ".", "0", ".", "0", ".", "0">>],
         [k \in {<<"a", "c", "c", "e", "p", "t">>} |-> <<"*", "/", "*">>],
         [k \in {<<"a", "c", "c", "e", "p", "t", "-", "l", "a", "n", "g", "u", "a", "g", "e">>,
                 <<"c", "o", "n", "n", "e", "c", "t", "i", "o", "n">>} |->
             IF k = <<"c", "o", "n", "n", "e", "c", "t", "i", "o", "n">>
             THEN <<"U", "p", "g", "r", "a", "d", "e">>
             ELSE <<"e", "n", "-", "U", "S">>]}

\* The advancedFingerprint values tried: that of the headless scenario of the test, a
\* desktop browser's, and one that meets the remaining checks.
HeadlessFingerprints ==
    {[environment |-> [plugins |-> <<>>, languages |-> <<"en-US">>, timezone |-> "UTC"],
      webgl |-> [vendor |-> <<"B", "r", "i", "a", "n", " ", "P", "a", "u", "l">>,
                 renderer |-> <<"M", "e", "s", "a", " ", "O", "f", "f", "S", "c", "r", "e", "e",
                               "n">>]],
     [canvas |-> [hash |-> "5f2b51ca2fdc5baa31ec02e002f69aec4e5a33d3", text |-> "t1",
                  geometry |-> "g1"],
      webgl |-> [vendor |-> <<"G", "o", "o", "g", "l", "e", " ", "I", "n", "c", ".">>,
                 renderer |-> <<"A", "N", "G", "L", "E", " ", "(", "I", "n", "t", "e", "l", ")">>],
      screen |-> [resolution |-> "2560x1440", pixelRatio |-> 2],
      device |-> [hardwareConcurrency |-> 8, deviceMemory |-> 8],
      environment |-> [plugins |-> <<"pdf", "nacl", "widevine">>,
                       languages |-> <<"en-US", "en">>, timezone |-> "America/Chicago"]],
     [canvas |-> [hash |-> "da39a3ee5e6b4b0d3255bfef95601890afd80709", text |-> "same",
                  geometry |-> "same"],
      screen |-> [pixelRatio |-> 1],
      device |-> [hardwareConcurrency |-> 1],
      environment |-> [plugins |-> <<"pdf">>]]}

\* The browser dicts tried, by version: an automation build, a zero-padded version.
HeadlessBrowsers ==
    {[name |-> "Chrome", version |-> <<"9", "1", ".", "0", ".", "4", "4", "7", "2", ".", "1",
                                        "2", "4">>],
     [name |-> "Chrome", version |-> <<"1", "1", "9", ".", "0", ".", "0", ".", "0">>]}

\* The addresses tried: an ISP's, and the private ones of the test scenarios.
HeadlessAddresses ==
    {<<"2", "0", "3", ".", "0", ".", "1", "1", "3", ".", "4", "5">>,
     <<"1", "9", "2", ".", "1", "6", "8", ".", "1", ".", "1">>,
     <<"1", "7", "2", ".", "1", "6", ".", "0", ".", "1">>}

\* The visitor infos tried.
HeadlessVisitors ==
    {[k \in {"userAgent", "headers", "ip", "browser", "os"}
            \cup (IF fingerprint = EmptyDict THEN {} ELSE {"advancedFingerprint"}) |->
         CASE k = "userAgent" -> ua
           [] k = "headers" -> headers
           [] k = "ip" -> ip
           [] k = "browser" -> browser
           [] k = "os" -> [name |-> "Mac OS"]
           [] OTHER -> fingerprint] :
        ua \in HeadlessUserAgents, headers \in HeadlessHeaderSets, ip \in HeadlessAddresses,
        browser \in HeadlessBrowsers, fingerprint \in {EmptyDict} \cup HeadlessFingerprints}

\* result = detector.detect(visitor_info)
Detect ==
    /\ ~detection.called
    /\ detection' = detect(detect_input)
    /\ UNCHANGED <<phase, store_vars, manager_vars, training_vars, saves, faults, predict_vars,
                   registry_history_vars, deploy_vars, extract_vars, labels_list, prepared,
                   targeted, geo_features, detect_input, declined>>

HeadlessInit ==
    /\ model_files = EmptyStore.mfiles
    /\ metadata_files = EmptyStore.metafiles
    /\ InitProcess
    /\ InitHistory
    /\ NoRequestYet
    /\ NoBalancing
    /\ NoGeoCall
    /\ detect_input \in HeadlessVisitors
    /\ detection = NotDetected

HeadlessSpec == HeadlessInit /\ [][Detect]_vars

----------------------------------------------------------------------------
(* The registry used directly: initialize, then any sequence of save_model,  *)
(* load_model and cleanup_old_versions calls on one ModelManager (the calls  *)
(* are synchronous, so they never overlap).  The file system does not fail   *)
(* here; I/O failures are injected in the service specification.             *)

RegistryFrame == UNCHANGED <<phase, training_vars, faults, predict_vars, deploy_vars, extract_vars, function_vars, declined>>

RegInitialize ==
    /\ phase = "constructed"
    /\ phase' = "serving"
    /\ SetManager(initialize(Manager, model_files, metadata_files))
    /\ last_call' = Call("initialize", None, 0, "none", <<>>, EmptyDict)
    /\ UNCHANGED <<store_vars, training_vars, saves, faults, predict_vars,
                   save_returns, deploy_vars, extract_vars, function_vars, declined>>

RegSave(model, fo, metrics) ==
    /\ phase = "serving"
    /\ saves < MaxSaves
    /\ LET r == save_model(model, fo, metrics, "ok", model_files, metadata_files)
       IN  /\ model_files' = r.mfiles
           /\ metadata_files' = r.metafiles
           /\ last_call' = Call("save", r.version, 0, r.raised, fo, metrics)
           /\ save_returns' =
                  Append(save_returns,
                         [id |-> r.version,
                          highest_before |-> Max(ExistingVersions(model_files) \cup {0})])
    /\ saves' = saves + 1
    /\ UNCHANGED manager_vars
    /\ RegistryFrame

RegLoad(version) ==
    /\ phase = "serving"
    /\ LET r == load_model(version, Manager, model_files, metadata_files)
       IN  /\ SetManager(r.mgr)
           /\ last_call' = Call("load", version, 0, r.raised, <<>>, EmptyDict)
    /\ UNCHANGED <<store_vars, saves, save_returns>>
    /\ RegistryFrame

RegPrune(keep) ==
    /\ phase = "serving"
    /\ LET r == cleanup_old_versions(keep, current_version, NoFault, model_files, metadata_files)
       IN  /\ model_files' = r.mfiles
           /\ metadata_files' = r.metafiles
           /\ last_call' = Call("prune", None, keep, r.raised, <<>>, EmptyDict)
    /\ save_returns' = <<>>
    /\ UNCHANGED <<manager_vars, saves>>
    /\ RegistryFrame

RegistryNext ==
    \/ RegInitialize
    \/ \E fo \in FeatureOrders, metrics \in TrainedMetrics :
           RegSave(TrainedModel(saves + 1), fo, metrics)
    \/ \E version \in RequestedVersions : RegLoad(version)
    \/ \E keep \in 0..MaxKeep : RegPrune(keep)

RegistrySpec == Init /\ [][RegistryNext]_vars

----------------------------------------------------------------------------
(* Claims about the registry, checked under RegistrySpec. *)

\* C5: whenever a trained version is active, the active version id names a
\* version whose model file is in the store.
ActiveVersionStored ==
    current_version \notin {None, RuleBasedVersion} => current_version \in DOMAIN model_files

\* C5 witness: a version saved and loaded in this execution is active after a
\* prune that deleted stored versions.
ActiveVersionStoredWitness ==
    /\ last_call.op = "prune"
    /\ current_version = NameOf[StoredAtStart + 1]
    /\ Cardinality(DOMAIN model_files) < StoredAtStart
    /\ current_version \in DOMAIN model_files

\* The stored versions that are neither among the `keep` highest ids nor active.
NotKeptNotActive(keep) ==
    {v \in DOMAIN model_files :
        /\ v # current_version
        /\ Cardinality({w \in DOMAIN model_files : IntOf(w) > IntOf(v)}) >= keep}

\* C6: a prune(keep) that completes removes exactly the stored versions that are
\* neither among the keep highest ids nor the active version.
PruneRemovesExactly ==
    [][(last_call'.op = "prune" /\ last_call'.raised = "none")
          => DOMAIN model_files' = DOMAIN model_files \ NotKeptNotActive(last_call'.keep)]_vars

\* C6 witness: after prune(keep=1) the store holds the highest version and the
\* active version "1", which is older than the one most recent version.
PruneKeepsOldActiveWitness ==
    /\ last_call.op = "prune"
    /\ last_call.keep = 1
    /\ current_version = "1"
    /\ Cardinality(DOMAIN model_files) = 2
    /\ "1" \in DOMAIN model_files

\* C7: load_model of an id with no stored model file raises FileNotFoundError and
\* leaves current_model, current_version, feature_names and model_metadata as they were.
LoadMissingChangesNothing ==
    [][(last_call'.op = "load" /\ last_call'.version \notin DOMAIN model_files)
          => (last_call'.raised = "FileNotFoundError" /\ UNCHANGED manager_vars)]_vars

\* C7 witness: load_model("01") was refused while version "1" is stored and active.
LoadMissingWitness ==
    /\ last_call.op = "load"
    /\ last_call.version = "01"
    /\ last_call.raised = "FileNotFoundError"
    /\ current_version = "1"
    /\ current_model = StoredModel("1")

\* C9: the ids returned by successive save calls are each the highest stored id
\* plus one, and each is the previous returned id plus one.
SaveIdsConsecutive ==
    \A i \in 1..Len(save_returns) :
        /\ IntOf(save_returns[i].id) = save_returns[i].highest_before + 1
        /\ i > 1 => IntOf(save_returns[i].id) = IntOf(save_returns[i - 1].id) + 1

\* C9 witness: two saves in a row on a store with fewer files than its highest id.
SaveIdsConsecutiveWitness ==
    /\ Len(save_returns) >= 2
    /\ Cardinality(DOMAIN model_files) < IntOf(save_returns[1].id)

\* C10: a load of the id a save just returned succeeds and makes the manager
\* report the feature order and the metrics given to that save.
SaveLoadRoundTrip ==
    [][(/\ last_call.op = "save"
        /\ last_call.raised = "none"
        /\ last_call'.op = "load"
        /\ last_call'.version = last_call.version)
          => /\ last_call'.raised = "none"
             /\ current_version' = last_call.version
             /\ feature_names' = last_call.fo
             /\ get_metrics([model_metadata |-> model_metadata']) = last_call.metrics]_vars

\* C10 witness: the version first saved onto a full store was loaded and the manager
\* reports the permuted feature order and the improved metrics given to the save.
SaveLoadRoundTripWitness ==
    /\ last_call.op = "load"
    /\ last_call.raised = "none"
    /\ last_call.version = NameOf[StoredAtStart + 1]
    /\ feature_names = <<"headers", "ua", "geo", "device">>
    /\ get_metrics(Manager) = Metrics(5200, 5000, 4000)

----------------------------------------------------------------------------
(* Claims about the training orchestrator, checked under Spec and FairSpec. *)

\* Where a run_training invocation that passed the guard can be suspended.
RunningSteps == {"count", "load", "redis_metrics", "redis_queue"}
\* The invocations past the guard.
PastGuard == {t \in Trainers : train_pc[t] \in RunningSteps}

\* C1: in every interleaving of run_training invocations at most one invocation is
\* past the is_training guard, and the flag is set exactly while one is.
AtMostOneRunning ==
    /\ Cardinality(PastGuard) <= 1
    /\ is_training <=> PastGuard # {}

\* One invocation is past the guard while another was created and has not run yet.
AtMostOneRunningWitness ==
    /\ Cardinality(PastGuard) = 1
    /\ \E t \in Trainers : train_pc[t] = "start"

\* C3: an invocation that starts while the flag is set returns at once: it goes to no
\* sample count, dataset load, save or promotion (store and manager are unchanged), it
\* leaves the flag set and the running invocation where it is, and it is not kept
\* pending.
SkippedTriggerIsNoOp ==
    [][\A t \in Trainers :
           (train_pc[t] = "start" /\ is_training /\ train_pc'[t] # "start")
           => /\ train_pc'[t] = "none"
              /\ last_exit' = "skipped"
              /\ is_training'
              /\ \A u \in Trainers \ {t} : train_pc'[u] = train_pc[u]
              /\ UNCHANGED <<store_vars, manager_vars, saves>>]_vars

\* A trigger was skipped while the first run waits for its dataset.
SkippedTriggerWitness ==
    /\ last_exit = "skipped"
    /\ is_training
    /\ \E t \in Trainers : train_pc[t] = "load"
    /\ \E u \in Trainers : train_pc[u] = "none"

\* C4: every invocation past the guard eventually returns with the flag cleared,
\* by whichever exit, and the flag is never left set with no invocation running.
RunningReturnsToIdle ==
    /\ \A t \in Trainers :
           (train_pc[t] \in RunningSteps) ~> (train_pc[t] = "none" /\ ~is_training)
    /\ [](PastGuard = {} => ~is_training)

\* A run that saved a version ended with an exception, and the flag is cleared.
RunningReturnsToIdleWitness ==
    /\ last_exit = "exception"
    /\ saves > 0
    /\ ~is_training
    /\ PastGuard = {}

----------------------------------------------------------------------------
(* Claims about the scoring path, checked under ScoringSpec. *)

\* The classifier objects that exist whole: the rule-based detector, and those
\* unpickled from the complete model files of the store.
StoredClassifiers ==
    {RuleBasedModel} \cup {model_files[v].model : v \in {w \in DOMAIN model_files : model_files[w].ok}}

\* C2: while load_model replaces the active model between the steps of predict tasks,
\* every predict call that reaches the classifier scores with one whole classifier:
\* the active one at that moment, which is the old or the new one of any load; the
\* fallback call uses the same object, and no call finds no model loaded.
PredictSeesWholeClassifier ==
    [][\A p \in Predictors :
           (/\ pred_pc[p] = "blacklist"
            /\ pred_pc'[p] # "blacklist"
            /\ ~pred_local'[p].blacklisted
            /\ pred_local'[p].error # "extract_features")
           => /\ pred_local'[p].error # "RuntimeError"
              /\ pred_local'[p].scored_by = current_model
              /\ pred_local'[p].scored_by \in StoredClassifiers
              /\ pred_local'[p].fallback_by \in {None, pred_local'[p].scored_by}]_vars

\* One request scored with version 5 and waits for redis, a load of version 1 has
\* replaced the active model since, and another request has scored with version 1.
PredictSeesWholeClassifierWitness ==
    /\ current_model = StoredModel("1")
    /\ \E p, q \in Predictors :
           /\ pred_pc[p] = "cache"
           /\ pred_local[p].scored_by = StoredModel(NameOf[StoredAtStart])
           /\ pred_pc[q] = "cache"
           /\ pred_local[q].scored_by = StoredModel("1")

----------------------------------------------------------------------------
(* Claims about the promotion decision, checked under DeploySpec. *)

\* The candidate's metric m is at least 2% above the active version's.
AtLeastTwoPercentAbove(m) ==
    /\ GetOr0(dep_new, m) > GetOr0(dep_current, m)
    /\ GetOr0(dep_new, m) * 100 >= GetOr0(dep_current, m) * 102

\* C8: the candidate is promoted iff the active version has no metrics, or its
\* f1_score or its roc_auc is at least 2% above the active version's value (exactly
\* 2% promotes); precision plays no part.
PromotedIffTwoPercent ==
    dep_result # "undecided"
    => (dep_result = "deploy"
        <=> (DOMAIN dep_current = {}
             \/ AtLeastTwoPercentAbove("f1_score")
             \/ AtLeastTwoPercentAbove("roc_auc")))

----------------------------------------------------------------------------
(* Claims about start-up, checked under StartupSpec. *)

\* The highest stored version id, by number.
HighestStored == NameOf[Max({IntOf(v) : v \in DOMAIN model_files})]
\* The files of version v can be read: a whole pickle, and metadata whole or absent.
Loadable(v) ==
    /\ model_files[v].ok
    /\ v \in DOMAIN metadata_files => metadata_files[v].ok

\* C11: after initialize a classifier is always active: that of the highest stored
\* version id when the store holds a version and its load succeeds, the rule-based
\* classifier when the store is empty or the load fails; initialize itself never fails.
InitializeLeavesUsableClassifier ==
    phase = "serving"
    => /\ current_model # None
       /\ IF DOMAIN model_files # {} /\ Loadable(HighestStored)
          THEN /\ current_version = HighestStored
               /\ current_model = model_files[HighestStored].model
               /\ feature_names = model_files[HighestStored].feature_names
          ELSE /\ current_version = RuleBasedVersion
               /\ current_model = RuleBasedModel
               /\ feature_names = RuleBasedFeatureNames

\* initialize found versions 9 and 10 stored and activated version 10.
InitializeLoadsHighestWitness ==
    /\ phase = "serving"
    /\ {"9", "10"} \subseteq DOMAIN model_files
    /\ current_version = "10"
    /\ current_model = StoredModel("10")

----------------------------------------------------------------------------
(* Claims about one predict request, checked under RequestSpec. *)

\* The Decision is the neutral one of the `except` clause.
NeutralDecision(local) ==
    /\ ~local.is_bot
    /\ local.confidence = 50
    /\ local.model_version = "error"

\* C12: when the blacklist check reports the address as listed, predict returns at
\* once with isBot true, confidence 1.0, the reason "IP found in blacklist" and the
\* tag blacklist_v1, and the call extracts no features, calls no classifier, writes
\* no cache entry and requests no blacklist addition.
BlacklistedReturnsAtOnce ==
    effects.check = "listed"
    => /\ pred_pc[Observed] = "returned"
       /\ pred_local[Observed].is_bot
       /\ pred_local[Observed].confidence = 100
       /\ pred_local[Observed].reason = "IP found in blacklist"
       /\ pred_local[Observed].model_version = "blacklist_v1"
       /\ pred_local[Observed].blacklisted
       /\ ~effects.extracted
       /\ ~effects.classified
       /\ pred_local[Observed].scored_by = None
       /\ effects.cache = "none"
       /\ effects.blacklist_add = "none"

\* A request found its address listed while a stored version is active.
BlacklistedReturnsAtOnceWitness ==
    /\ effects.check = "listed"
    /\ pred_pc[Observed] = "returned"
    /\ pred_local[Observed].model_version = "blacklist_v1"
    /\ current_version # RuleBasedVersion

\* C13: when the blacklist check fails (the request raises or times out, the status
\* is not 200, the body cannot be read), predict goes on exactly as for an address
\* that is not listed: the features are extracted and the classifier path is taken;
\* nothing is raised and the failure itself gives no error Decision.
FailedCheckFailsOpen ==
    [][(pred_pc[Observed] = "blacklist" /\ effects'.check \in BlacklistFailures)
       => /\ effects'.extracted
          /\ ~pred_local'[Observed].blacklisted
          /\ ~pred_local'[Observed].raised
          /\ \E extraction \in StepResults, outcome \in ClassifierOutcomes :
                 LET r == check_step("clear", extraction, outcome,
                                     current_model, current_version)
                 IN  /\ pred_pc'[Observed] = r.pc
                     /\ pred_local'[Observed] = r.local]_vars

\* The blacklist check timed out and the request was scored by the stored version.
FailedCheckFailsOpenWitness ==
    /\ effects.check = "timeout"
    /\ pred_pc[Observed] = "returned"
    /\ effects.classified
    /\ pred_local[Observed].error = None
    /\ pred_local[Observed].model_version = NameOf[StoredAtStart]
    /\ ~pred_local[Observed].blacklisted

\* A failure happened in one of the steps of the observed request after the blacklist
\* check: extract_features, the classifier (predict_proba included), the cache write,
\* the blacklist addition, or the assembly of the Decision.
FailureInSomeStep ==
    \/ pred_local[Observed].error # None
    \/ pred_local[Observed].fallback_by # None
    \/ effects.cache = "failed"
    \/ effects.blacklist_add = "failed"

\* C14 as stated: any failure during feature extraction, classification, cache write,
\* blacklist addition or Decision assembly gives the neutral Decision isBot false,
\* confidence 0.5, modelVersion "error", and predict never raises.
AnyFailureGivesNeutralDecision ==
    (pred_pc[Observed] = "returned" /\ FailureInSomeStep)
    => /\ NeutralDecision(pred_local[Observed])
       /\ ~pred_local[Observed].raised

\* C14, amended: predict never raises; a failure that reaches predict's own handler
\* (extract_features raises, ModelManager.predict raises because no model is loaded
\* or because predict_proba and the fallback predict both fail, the assembly of the
\* Decision raises) gives the neutral Decision; a failure handled inside its step
\* (predict_proba alone, the cache write, the blacklist addition) does not: the
\* Decision returned is the scored one, with an active version as modelVersion.
EscapedFailureGivesNeutralDecision ==
    pred_pc[Observed] = "returned"
    => /\ ~pred_local[Observed].raised
       /\ pred_local[Observed].error # None
          <=> pred_local[Observed].error \in {"extract_features", "RuntimeError",
                                              "ClassifierError", "assembly"}
       /\ pred_local[Observed].error # None => NeutralDecision(pred_local[Observed])
       /\ (pred_local[Observed].error = None /\ ~pred_local[Observed].blacklisted)
          => /\ pred_local[Observed].model_version \notin {"error", "blacklist_v1"}
             /\ pred_local[Observed].scored_by # None

\* The cache write and the blacklist addition failed and the scored Decision was
\* then lost to a failure of its assembly: the neutral Decision is returned.
EscapedFailureWitness ==
    /\ pred_pc[Observed] = "returned"
    /\ effects.cache = "failed"
    /\ effects.blacklist_add = "failed"
    /\ pred_local[Observed].error = "assembly"
    /\ NeutralDecision(pred_local[Observed])

\* C15: a failed cache write and a failed or refused blacklist addition leave predict
\* going on exactly as after a successful one: the same next step, the same Decision,
\* nothing raised.
SwallowedFailuresKeepDecision ==
    [][/\ (pred_pc[Observed] = "cache" /\ effects'.cache = "failed")
          => \E assembly \in StepResults :
                 LET r == cache_step(pred_local[Observed], "written", assembly,
                                     current_version)
                 IN  /\ pred_pc'[Observed] = r.pc
                     /\ pred_local'[Observed] = r.local
                     /\ ~r.local.raised
       /\ (pred_pc[Observed] = "blacklist_add"
           /\ effects'.blacklist_add \in {"failed", "refused"})
          => \E assembly \in StepResults :
                 LET r == add_step(pred_local[Observed], "added", assembly,
                                   current_version)
                 IN  /\ pred_pc'[Observed] = r.pc
                     /\ pred_local'[Observed] = r.local
                     /\ ~r.local.raised]_vars

\* Both the cache write and the blacklist addition failed and the request returned
\* its bot Decision with confidence 0.95.
SwallowedFailuresWitness ==
    /\ pred_pc[Observed] = "returned"
    /\ effects.cache = "failed"
    /\ effects.blacklist_add = "failed"
    /\ pred_local[Observed].error = None
    /\ pred_local[Observed].is_bot
    /\ pred_local[Observed].confidence = 95
    /\ pred_local[Observed].model_version = current_version

----------------------------------------------------------------------------
(* Claims about feature extraction and the rule-based classifier, checked    *)
(* under ClassifySpec.                                                        *)

\* C16 as stated: for every visitor signal, including one whose optional geo, device,
\* browser, os or referer field is missing or null, extract_features returns without
\* raising a vector with one entry per canonical feature name (150 of them), the
\* entries' groups in the order of the names' groups.
ExtractionIsTotal ==
    extracted.raised # "not_called"
    => /\ extracted.raised = "none"
       /\ Len(extractor_feature_names) = 150
       /\ Len(extracted.vector) = Len(extractor_feature_names)
       /\ \A i \in 1 .. Len(extracted.vector) : extracted.vector[i].group = NameGroups[i]

\* The "Python Bot" scenario without geo: userAgent "python-requests/2.28.1", the two
\* headers accept and user-agent, and geo absent or empty.
PythonBotNoGeo ==
    /\ signal.userAgent = PythonRequestsUA
    /\ signal.headers.items = MinimalHeaders
    /\ ("geo" \notin DOMAIN signal \/ ~Truthy(signal.geo))

\* The "Chrome Desktop User" scenario: the Chrome 119 desktop user agent from an ISP
\* address, the complete headers, US geo, desktop device, the browser parsed as Chrome.
ChromeDesktopUser ==
    /\ signal.userAgent = ChromeDesktopUA
    /\ signal.ip = <<203, 0, 113, 45>>
    /\ signal.headers.items = CompleteHeaders
    /\ "geo" \in DOMAIN signal /\ signal.geo \in OptionalValues.geo
    /\ Truthy(signal.geo) /\ signal.geo.items["country"] = "US"
    /\ "device" \in DOMAIN signal /\ signal.device = PyDict([k \in {"type"} |-> "desktop"])
    /\ "browser" \in DOMAIN signal /\ Truthy(signal.browser)
    /\ signal.browser.items["name"] = "Chrome"

----------------------------------------------------------------------------
(* Claims about the active model as a whole, checked under Spec. *)

\* C18 as stated: the active model is never left partially switched: after any load,
\* rollback or training run, whether it succeeded or raised part-way, the active
\* classifier, the active version id, the feature order and the reported metrics all
\* belong to one and the same version.
ActiveBelongsToOneVersion ==
    current_version # None
    => IF current_version = RuleBasedVersion
       THEN /\ current_model = RuleBasedModel
            /\ feature_names = RuleBasedFeatureNames
            /\ get_metrics(Manager) = EmptyDict
       ELSE /\ current_version \in DOMAIN model_files
            /\ current_model = model_files[current_version].model
            /\ feature_names = model_files[current_version].feature_names
            /\ "version" \in DOMAIN model_metadata
                  => model_metadata.version = current_version

----------------------------------------------------------------------------
(* Claims about what a training run stores and promotes, checked under Spec. *)

\* The step of run_training task t from the fitted model to the next suspension or
\* to the end of the run.
FitCompleted(t) == train_pc[t] = "load" /\ saves' = saves + 1

\* After the step, the version id the save assigned holds the model fitted by this run
\* and readable metadata naming that version.
CandidateStored ==
    LET v == new_version_id(model_files)
    IN  /\ v \in DOMAIN model_files'
        /\ model_files'[v] = ModelFile(TrainedModel(saves + 1), ExtractorFeatureNames)
        /\ v \in DOMAIN metadata_files'
        /\ metadata_files'[v].ok
        /\ metadata_files'[v].json.version = v

\* C19: every training run that completes model fitting saves the result as a new
\* stored version before the promotion decision is evaluated, whether or not the
\* candidate is then promoted: after the step either the candidate is stored, or
\* save_model raised, the run ended in its except clause and the active model is
\* the one it was (no decision was acted on).
SavedBeforeDecision ==
    [][\A t \in Trainers :
          FitCompleted(t)
          => \/ CandidateStored
             \/ (train_pc'[t] = "none" /\ last_exit' = "exception" /\ UNCHANGED manager_vars)]_vars

\* Two runs have completed without any failure: the first candidate was promoted and
\* the second was not, and both are stored.
SavedBeforeDecisionWitness ==
    /\ saves = 2
    /\ faults = 0
    /\ last_exit # "exception"
    /\ current_version = NameOf[StoredAtStart + 1]
    /\ {NameOf[StoredAtStart + 1], NameOf[StoredAtStart + 2]} \subseteq DOMAIN model_files
    /\ model_files[NameOf[StoredAtStart + 2]].model = TrainedModel(2)
    /\ metadata_files[NameOf[StoredAtStart + 2]].ok

\* The step ended at the next suspension with the candidate stored, and the decision on
\* the candidate's metrics against the metrics the manager reported was negative.
NotPromoted(t) ==
    /\ FitCompleted(t)
    /\ train_pc'[t] = "redis_metrics"
    /\ CandidateStored
    /\ ~should_deploy_model(get_metrics(Manager),
                            metadata_files'[new_version_id(model_files)].json.metrics)

\* C20: when the promotion decision is negative, the run leaves the active
\* classifier, version id and metrics unchanged and deletes no stored version, and
\* the newly saved version stays stored: list_versions returns it and a rollback to
\* it activates it.
NonPromotionKeepsActive ==
    [][\A t \in Trainers :
          NotPromoted(t)
          => LET v == new_version_id(model_files)
                 rolled == load_model(v, [current_model |-> current_model',
                                          current_version |-> current_version',
                                          feature_names |-> feature_names',
                                          model_metadata |-> model_metadata'],
                                      model_files', metadata_files')
             IN  /\ UNCHANGED manager_vars
                 /\ DOMAIN model_files' = DOMAIN model_files \cup {v}
                 /\ DOMAIN metadata_files' = DOMAIN metadata_files \cup {v}
                 /\ \A old \in DOMAIN model_files : model_files'[old] = model_files[old]
                 /\ \A old \in DOMAIN metadata_files : metadata_files'[old] = metadata_files[old]
                 /\ \E i \in 1 .. Len(list_versions(metadata_files')) :
                        list_versions(metadata_files')[i].version = v
                 /\ rolled.raised = "none"
                 /\ rolled.mgr.current_version = v
                 /\ rolled.mgr.current_model = TrainedModel(saves + 1)]_vars

\* A run on the full store measured the metrics of the active version 5, was not
\* promoted, and waits for redis: version 5 is still active and versions 1 to 6 are
\* all stored.
NonPromotionKeepsActiveWitness ==
    /\ \E t \in Trainers : train_pc[t] = "redis_metrics"
    /\ saves = 1
    /\ faults = 0
    /\ current_version = NameOf[StoredAtStart]
    /\ current_model = StoredModel(NameOf[StoredAtStart])
    /\ DOMAIN model_files = {NameOf[n] : n \in 1 .. (StoredAtStart + 1)}
    /\ DOMAIN metadata_files = DOMAIN model_files

----------------------------------------------------------------------------
(* Claims about promotion and pruning, checked under Spec. *)

\* The stored version numbers after the step.
StoredIdsAfter == {IntOf(x) : x \in DOMAIN model_files'}

\* C21: when the promotion decision is positive, the newly saved version first
\* becomes the active version and the store is then pruned: when the step reaches
\* the next suspension (pruning completed), the active version is the new one, it
\* is the highest stored id, and the stored artifacts are the (at most 5) highest
\* ids of the old store and the new id; and a step that removed an artifact and
\* then raised had already made the new version active.
PromotedThenPruned ==
    [][\A t \in Trainers :
          FitCompleted(t)
          => LET v == new_version_id(model_files)
                 before == ExistingVersions(model_files) \cup {IntOf(v)}
             IN  /\ train_pc'[t] = "redis_metrics"
                    => /\ CandidateStored
                       /\ should_deploy_model(get_metrics(Manager),
                                              metadata_files'[v].json.metrics)
                          => /\ current_version' = v
                             /\ current_model' = TrainedModel(saves + 1)
                             /\ model_metadata' = metadata_files'[v].json
                             /\ \A n \in StoredIdsAfter : n <= IntOf(v)
                             /\ Cardinality(StoredIdsAfter) <= KeepVersions
                             /\ StoredIdsAfter \subseteq before
                             /\ \A gone \in before \ StoredIdsAfter :
                                    \A kept \in StoredIdsAfter : gone < kept
                 /\ (\E old \in DOMAIN model_files : old \notin DOMAIN model_files')
                    => current_version' = v]_vars

\* A run on the full store was promoted and pruned and waits for redis: the new
\* version is active and version 1 is no longer stored.
PromotedThenPrunedWitness ==
    /\ \E t \in Trainers : train_pc[t] = "redis_metrics"
    /\ saves = 1
    /\ faults = 0
    /\ current_version = NameOf[StoredAtStart + 1]
    /\ current_model = TrainedModel(1)
    /\ DOMAIN model_files = {NameOf[n] : n \in 2 .. (StoredAtStart + 1)}
    /\ DOMAIN metadata_files = DOMAIN model_files

\* C22 as stated: a version id is never visible without its artifact: at every point
\* during and after save and prune, also when either was interrupted between its
\* file writes or deletions, every version list_versions returns has a stored
\* artifact that load_model can open.
ListedVersionsHaveArtifact ==
    LET listed == list_versions(metadata_files)
    IN  \A i \in 1 .. Len(listed) :
            /\ listed[i].version \in DOMAIN model_files
            /\ model_files[listed[i].version].ok
            /\ load_model(listed[i].version, Manager, model_files,
                          metadata_files).raised = "none"

----------------------------------------------------------------------------
(* Claims about the blacklist addition, checked under RequestSpec. *)

\* C23 as stated: the blacklist addition does not block the response: predict
\* returns its Decision without waiting for the addition call to complete, so
\* whenever the addition has been requested and has not completed, the request has
\* returned.
AdditionDoesNotBlock ==
    effects.blacklist_add = "requested" => pred_pc[Observed] = "returned"

\* C24: on the non-blacklisted path predict requests a blacklist addition for the
\* visitor's address iff the classifier result is a bot with confidence strictly
\* above 0.7, at most once per call, with an expiry of 72 hours when confidence >=
\* 0.95, 48 hours when 0.85 <= confidence < 0.95, and 24 hours otherwise.
AdditionIffConfidentBot ==
    [][LET result == pred_local[Observed]
           request == effects'.add_request
       IN  /\ effects'.adds <= 1
           /\ effects'.adds > effects.adds
              => pred_pc[Observed] = "cache" /\ effects.classified /\ ~result.blacklisted
           /\ (pred_pc[Observed] = "cache" /\ pred_pc'[Observed] # "cache")
              => /\ effects'.adds = 1 <=> (result.is_bot /\ result.confidence > 70)
                 /\ effects'.adds = 1
                    => /\ request.ip_address = effects.ip
                       /\ result.confidence >= 95 => request.expires_hours = 72
                       /\ (85 <= result.confidence /\ result.confidence < 95)
                          => request.expires_hours = 48
                       /\ result.confidence < 85 => request.expires_hours = 24]_vars

\* A request scored as a bot with confidence 0.95 has returned after one addition
\* request with an expiry of 72 hours.
AdditionIffConfidentBotWitness ==
    /\ pred_pc[Observed] = "returned"
    /\ pred_local[Observed].is_bot
    /\ pred_local[Observed].confidence = 95
    /\ effects.adds = 1
    /\ effects.add_request.expires_hours = 72
    /\ effects.add_request.ip_address = effects.ip

----------------------------------------------------------------------------
(* Claims about the Decision of the classifier path, checked under RequestSpec. *)

\* The observed request returned a Decision computed from a classifier result.
ReturnedClassifierDecision ==
    /\ pred_pc[Observed] = "returned"
    /\ effects.classified
    /\ pred_local[Observed].error = None

\* C25 as stated: every Decision produced through the classifier path satisfies
\* isBot = (confidence > 0.5), also when predict_proba failed and the manager fell
\* back to the plain prediction of the model.
IsBotIffAboveHalf ==
    ReturnedClassifierDecision
    => (pred_local[Observed].is_bot <=> pred_local[Observed].confidence > 50)

----------------------------------------------------------------------------
(* Claims about class balancing, checked under BalanceSpec. *)

\* The number of samples labelled `label` in y.
CountOf(y, label) == Len(Where(y, label))

\* C26 as stated: for any two-class training set, balancing returns every sample of
\* the minority class and a subset of the majority class chosen without replacement
\* whose size is at most 3 times the minority count, whichever class is the majority;
\* a set already within 3:1 is returned unchanged.
BalancedWithinThreeToOne ==
    (prepared.called /\ Range(labels_list) = {0, 1})
    => LET minority == IF CountOf(labels_list, 1) <= CountOf(labels_list, 0) THEN 1 ELSE 0
           majority == 1 - minority
           within == CountOf(labels_list, majority) <= 3 * CountOf(labels_list, minority)
       IN  /\ Range(Where(labels_list, minority)) \subseteq Range(prepared.X)
           /\ Range(prepared.X) \subseteq 1 .. Len(labels_list)
           /\ \A i, j \in 1 .. Len(prepared.X) : i # j => prepared.X[i] # prepared.X[j]
           /\ prepared.y = [k \in 1 .. Len(prepared.X) |-> labels_list[prepared.X[k]]]
           /\ CountOf(prepared.y, majority) <= 3 * CountOf(prepared.y, minority)
           /\ within => (prepared.X = [i \in 1 .. Len(labels_list) |-> i]
                         /\ prepared.y = labels_list)

----------------------------------------------------------------------------
(* Claims about the targeting adjustment, checked under TargetingSpec. *)

\* The base risk of a country, in 1/1000.
BaseRisk(country) ==
    IF country \in {"CN", "RU", "IN", "BR", "ID", "NG", "PK"} THEN 800
    ELSE IF country \in {"TR", "VN", "PH", "BD", "EG", "IR"} THEN 600
    ELSE 200

\* The countries the campaign targeting lists (none without targeting).
TargetList ==
    IF targeted.campaign_targeting.type = "dict"
       /\ "countries" \in DOMAIN targeted.campaign_targeting.items
    THEN {targeted.campaign_targeting.items.countries[i] :
              i \in 1 .. Len(targeted.campaign_targeting.items.countries)}
    ELSE {}

\* C27 as stated: the country risk feature is the base risk reduced by 30% exactly
\* when the targeting lists countries and the visitor's country is among them, is
\* raised to at least 0.7 exactly when the country is absent from a non-empty list,
\* and equals the base risk when there is no targeting or the list is empty.
RiskAdjustedOnlyByTargeting ==
    (geo_features.raised = "none" /\ "country" \in DOMAIN targeted.data.geo.items)
    => LET country == targeted.data.geo.items.country
           risk == geo_features.vector[3].value
           base == BaseRisk(country)
       IN  IF TargetList = {} THEN risk = base
           ELSE IF country \in TargetList THEN risk = (base * 7) \div 10
           ELSE risk = (IF base > 700 THEN base ELSE 700)

----------------------------------------------------------------------------
(* Claims about the headless detector, checked under HeadlessSpec. *)

\* The risk score summed over the five signal groups of a visitor info.
SummedRisk(visitor_info) ==
    analyze_user_agent(PyGet(visitor_info, "userAgent", <<>>)).score
    + analyze_headers(PyGet(visitor_info, "headers", EmptyDict))
    + (IF "advancedFingerprint" \in DOMAIN visitor_info
       THEN analyze_advanced_fingerprint(visitor_info.advancedFingerprint)
       ELSE 0)
    + analyze_browser_environment(visitor_info)
    + analyze_behavioral_patterns(visitor_info)

\* The user agent of the visitor info contains 'HeadlessChrome'.
NamesHeadlessChrome ==
    Contains(PyGet(detect_input, "userAgent", <<>>),
             <<"H", "e", "a", "d", "l", "e", "s", "s", "C", "h", "r", "o", "m", "e">>)

\* C28: detect reports is_headless exactly when the risk score summed over the
\* signal groups is at least 60, with confidence min(risk_score / 100, 1.0); a
\* user agent containing 'HeadlessChrome' is therefore reported headless, and a
\* visitor scoring below 60 is not.
HeadlessIffRiskAtLeastSixty ==
    detection.called
    => /\ detection.risk_score = SummedRisk(detect_input)
       /\ detection.is_headless <=> (SummedRisk(detect_input) >= 60)
       /\ detection.confidence = Min2(SummedRisk(detect_input), 100)
       /\ NamesHeadlessChrome => detection.is_headless
       /\ SummedRisk(detect_input) < 60 => ~detection.is_headless

\* detect has answered for a user agent containing 'HeadlessChrome' whose other
\* signal groups add nothing: the score is exactly 60 and the visitor is reported
\* headless.
HeadlessIffRiskAtLeastSixtyWitness ==
    /\ detection.called
    /\ NamesHeadlessChrome
    /\ detection.risk_score = 60
    /\ detection.is_headless

----------------------------------------------------------------------------
(* Claims about the version a Decision names, checked under ScoringSpec. *)

\* The classifier object that load_model or create_default_model makes active
\* under a version name.
ClassifierNamed(version) ==
    IF version = RuleBasedVersion THEN RuleBasedModel ELSE StoredModel(version)

\* C29 as stated: the modelVersion of a Decision that the classifier path returned,
\* and the model_version of the cache entry built for it, name the classifier that
\* computed its isBot and confidence, whatever load or rollback ran while the
\* predict call was suspended.
DecisionNamesScoringClassifier ==
    \A p \in Predictors :
        /\ (pred_local[p].cache_version # None /\ pred_local[p].scored_by # None)
           => pred_local[p].scored_by = ClassifierNamed(pred_local[p].cache_version)
        /\ (pred_pc[p] = "returned" /\ pred_local[p].reason = "detection")
           => pred_local[p].scored_by = ClassifierNamed(pred_local[p].model_version)

----------------------------------------------------------------------------
(* Claims about versions that were not promoted, checked under RestartSpec. *)

\* C30 as stated: a stored version whose promotion decision was negative becomes
\* the active version only by a load/rollback request that names its id; no
\* training run and no restart of the process makes it active.
DeclinedActiveOnlyByRequest ==
    [][\A v \in declined' :
          (current_version' = v /\ current_version # v) => Rollback(v)]_vars

====
